---- MODULE Spec2Model ----
(***************************************************************************)
(* A model of the tasq server's queue engine: the task deque, the pending  *)
(* and running queues, the per-context QueueState, the rate tracker and    *)
(* the QueueStateMux that creates and garbage-collects named QueueStates.  *)
(* Time is the wall clock in whole seconds.                                *)
(***************************************************************************)
EXTENDS Integers, Sequences, FiniteSets, TLC

VARIABLES
    queues,    \* QueueStateMux.queues: context name -> QueueState
    users,     \* QueueStateMux.users: context name -> number of Get calls in flight
    now,       \* time.Now(), in seconds
    thr,       \* per request goroutine: where it is inside QueueStateMux.Get
    pushLog,   \* history: per context, the ids returned by Push, in order
    staleIds,  \* history: per context, the ids issued before some Clear
    doneIds,   \* history: per context, the ids for which Completed returned true
    net,       \* history: per context, pushed - completed - removed by Clear
    rt,        \* a RateTracker on its own, driven by AddAt and CountAt calls
    rtLog,     \* history: the calls made on rt since it last reset, as <<time, n>>
    saveLock,  \* QueueStateMux.saveLock is held by Serialize (the writer)
    saveStates,  \* the ContextStates that the Serialize in flight has collected
    numAttempts, \* per context and id, Task.numAttempts of the task with that id
    delivered,   \* history: per context and id, how often Pop or PopBatch returned the task
    kept,        \* history: per context, the ids of the tasks a Keepalive has renewed
    source,      \* tasq-transfer: the QueueState of the source server
    dest,        \* tasq-transfer: the QueueState of the destination server
    xfer,        \* tasq-transfer: where main is, and the tasks of its response
    srcLog,      \* history: the contents pushed to the source server
    savePath,    \* the file at Server.SavePath
    tmpPath,     \* the file at Server.SavePath + ".tmp"
    saveLoop,    \* where Server.SaveLoop is
    heap,        \* the Task objects of a program that uses TaskDeques: fields and links
    deques,      \* the TaskDeques of that program: first, last, count, bytes
    dequePanic,  \* the message of the panic that ended that program, or ""
    strays,      \* history: the Remove calls that returned for a task not in the deque
    saveWait,    \* Serialize has called saveLock.Lock() and waits for the readers to leave
    iter,        \* where QueueStateMux.Iterate is, and the names it still has to visit
    visited,     \* history: the calls of f by the Iterate in flight, or by the last one
    counting,    \* per goroutine: where its Counts call is inside CountAt on rt
    rt0,         \* history: rt when the first of the Counts calls in flight began
    rtFrom,      \* history: where rt comes from: "new", or the snapshot entry decoded
    rtPanic      \* the panic of the last call on a decoded rt, "" if it returned

vars == <<queues, users, now, thr, pushLog, staleIds, doneIds, net, rt, rtLog,
          saveLock, saveStates, numAttempts, delivered, kept,
          source, dest, xfer, srcLog, savePath, tmpPath, saveLoop,
          heap, deques, dequePanic, strays, saveWait, iter, visited, counting, rt0,
          rtFrom, rtPanic>>

----------------------------------------------------------------------------
(* Bounds of the model.                                                    *)

MaxPush == 2          \* pushes per behaviour, over all contexts
MaxTicks == 1         \* seconds the clock advances
DefaultTimeout == 1   \* the server's -timeout flag, in seconds
MaxBatch == 2         \* largest count given to PopBatch
RateHistory == 3      \* historySize of the RateTracker driven on its own
MaxRateTime == 4      \* largest time given to AddAt and CountAt
MaxRateCalls == 3     \* AddAt and CountAt calls per behaviour
MaxLimit == 2         \* largest limit given to Push
MaxAttempts == 2      \* deliveries of one task that are counted
MaxTasks == 3         \* Task objects of the program that uses TaskDeques alone
MaxExpiration == 1    \* largest expiration given to such a Task
MaxStrays == 1        \* Remove calls that return for a task that is not in the deque

(* Program constants.                                                      *)

DefaultRateTrackerBins == 128
ZeroTime == 0         \* time.Time{}: earlier than every clock reading
\* the clock reading when the server starts: long after the epoch
StartTime == 8 * DefaultRateTrackerBins

Names == {"a"}
\* the contexts of a server that is saved while it has more than one
Contexts == Names \cup {"b"}
Threads == {"t1", "t2"}
Contents == {"x"}
Nil == <<>>
\* timeout parameter of a request: absent, or a positive override
TimeoutParams == {Nil, <<DefaultTimeout + 1>>}
RateWindows == {0, DefaultRateTrackerBins + 1}
\* parseLimit: any integer; an absent parameter is 0
Limits == -1..MaxLimit

Some(x) == <<x>>

----------------------------------------------------------------------------
(* strconv.FormatInt(n, 16)                                                *)

HexDigits == <<"0", "1", "2", "3", "4", "5", "6", "7",
               "8", "9", "a", "b", "c", "d", "e", "f">>

RECURSIVE FormatInt(_)
FormatInt(n) ==
    IF n < 16 THEN HexDigits[n + 1]
    ELSE FormatInt(n \div 16) \o HexDigits[(n % 16) + 1]

IdSpace == {FormatInt(i) : i \in 0..MaxPush}

----------------------------------------------------------------------------
(* TaskDeque: the linked list, as the sequence of its tasks from first to  *)
(* last. A task is [ID, Contents, expiration]; within one QueueState a     *)
(* task object is identified by its ID.                                    *)

NewTask(id, contents) == [ID |-> id, Contents |-> contents, expiration |-> ZeroTime]

TaskDeque_Len(d) == Len(d)

TaskDeque_PushLast(d, task) == Append(d, task)

TaskDeque_PushFirst(d, task) == <<task>> \o d

\* the loop of PushByExpiration: walk back from the tail past later expirations
RECURSIVE ScanPrev(_, _, _)
ScanPrev(d, i, exp) ==
    IF i > 0 /\ d[i].expiration > exp THEN ScanPrev(d, i - 1, exp) ELSE i

\* a PushByExpiration that always appends
TaskDeque_PushByExpiration_Last(d, task) == TaskDeque_PushLast(d, task)

TaskDeque_PushByExpiration(d, task) ==
    LET prev == ScanPrev(d, Len(d), task.expiration) IN
    IF prev = 0 THEN TaskDeque_PushFirst(d, task)
    ELSE IF prev = Len(d) THEN TaskDeque_PushLast(d, task)
    ELSE SubSeq(d, 1, prev) \o <<task>> \o SubSeq(d, prev + 1, Len(d))

TaskDeque_Has(d, id) == \E i \in 1..Len(d) : d[i].ID = id

TaskDeque_Index(d, id) == CHOOSE i \in 1..Len(d) : d[i].ID = id

TaskDeque_Remove(d, id) ==
    LET i == TaskDeque_Index(d, id) IN
    SubSeq(d, 1, i - 1) \o SubSeq(d, i + 1, Len(d))

TaskDeque_PeekFirst(d) == IF Len(d) = 0 THEN Nil ELSE Some(d[1])

TaskDeque_PopFirst(d) ==
    IF Len(d) = 0 THEN [task |-> Nil, deque |-> d]
    ELSE [task |-> Some(d[1]), deque |-> TaskDeque_Remove(d, d[1].ID)]

\* []EncodedTask, in list order
TaskDeque_Encode(d) ==
    [i \in 1..Len(d) |->
        [ID |-> d[i].ID, Contents |-> d[i].Contents, Expiration |-> d[i].expiration]]

DecodeTaskDeque(obj) ==
    [i \in 1..Len(obj) |->
        [ID |-> obj[i].ID, Contents |-> obj[i].Contents, expiration |-> obj[i].Expiration]]

DequeIds(d) == {d[i].ID : i \in 1..Len(d)}

----------------------------------------------------------------------------
(* RateTracker: firstBinTime and the bins, bin i covering second           *)
(* firstBinTime + i - 1.                                                   *)

NewRateTracker(historySize) ==
    LET size == IF historySize = 0 THEN DefaultRateTrackerBins ELSE historySize IN
    [firstBinTime |-> 0, bins |-> [i \in 1..size |-> 0]]

RateTracker_Reset(r) == [r EXCEPT !.bins = [i \in 1..Len(r.bins) |-> 0]]

RateTracker_HistorySize(r) == Len(r.bins)

\* a truncateAndShift that rotates the ring forward and does not zero the
\* bins it vacates
truncateAndShift_Rotate(r, curTime) ==
    LET size == Len(r.bins)
        lastBinTime == r.firstBinTime + size - 1
    IN
    IF curTime < r.firstBinTime \/ curTime >= lastBinTime + size
    THEN [firstBinTime |-> curTime - (size - 1), bins |-> [i \in 1..size |-> 0]]
    ELSE IF curTime < lastBinTime
    THEN LET backtrack == lastBinTime - curTime IN
         [firstBinTime |-> r.firstBinTime - backtrack,
          bins |-> [i \in 1..size |-> IF i <= backtrack THEN 0 ELSE r.bins[i - backtrack]]]
    ELSE IF curTime > lastBinTime
    THEN LET forward == curTime - lastBinTime IN
         [firstBinTime |-> r.firstBinTime + forward,
          bins |-> [i \in 1..size |-> r.bins[((i - 1 + forward) % size) + 1]]]
    ELSE r

\* a truncateAndShift that forgets the history when the clock has stepped
\* back, and leaves the window where it was
truncateAndShift_KeepWindow(r, curTime) ==
    LET size == Len(r.bins)
        lastBinTime == r.firstBinTime + size - 1
    IN
    IF curTime < r.firstBinTime \/ curTime >= lastBinTime + size
    THEN [firstBinTime |-> curTime - (size - 1), bins |-> [i \in 1..size |-> 0]]
    ELSE IF curTime < lastBinTime
    THEN [firstBinTime |-> r.firstBinTime, bins |-> [i \in 1..size |-> 0]]
    ELSE IF curTime > lastBinTime
    THEN LET forward == curTime - lastBinTime IN
         [firstBinTime |-> r.firstBinTime + forward,
          bins |-> [i \in 1..size |-> IF i > size - forward THEN 0 ELSE r.bins[i + forward]]]
    ELSE r

truncateAndShift(r, curTime) ==
    LET size == Len(r.bins)
        lastBinTime == r.firstBinTime + size - 1
    IN
    IF curTime < r.firstBinTime \/ curTime >= lastBinTime + size
    THEN [firstBinTime |-> curTime - (size - 1), bins |-> [i \in 1..size |-> 0]]
    ELSE IF curTime < lastBinTime
    THEN LET backtrack == lastBinTime - curTime IN
         [firstBinTime |-> r.firstBinTime - backtrack,
          bins |-> [i \in 1..size |-> IF i <= backtrack THEN 0 ELSE r.bins[i - backtrack]]]
    ELSE IF curTime > lastBinTime
    THEN LET forward == curTime - lastBinTime IN
         [firstBinTime |-> r.firstBinTime + forward,
          bins |-> [i \in 1..size |-> IF i > size - forward THEN 0 ELSE r.bins[i + forward]]]
    ELSE r

RateTracker_AddAt(r, curTime, n) ==
    LET s == truncateAndShift(r, curTime) IN
    [s EXCEPT !.bins[Len(s.bins)] = @ + n]

\* the sum of bins[lo..hi], halving the range to keep the evaluation shallow
RECURSIVE SumBins(_, _, _)
SumBins(bins, lo, hi) ==
    IF lo > hi THEN 0
    ELSE IF lo = hi THEN bins[lo]
    ELSE LET mid == (lo + hi) \div 2 IN SumBins(bins, lo, mid) + SumBins(bins, mid + 1, hi)

\* requires t <= Len(r.bins); the caller (Counts) clamps t
RateTracker_CountAt(r, curTime, t) ==
    LET s == truncateAndShift(r, curTime) IN
    [count |-> SumBins(s.bins, Len(s.bins) - t + 1, Len(s.bins)), rateTracker |-> s]

RateTracker_Encode(r) == [FirstBinTime |-> r.firstBinTime, Bins |-> r.bins]

\* state is the address of a field of the EncodedQueueState, never nil
DecodeRateTracker(state) == [firstBinTime |-> state.FirstBinTime, bins |-> state.Bins]

----------------------------------------------------------------------------
(* PendingQueue: [deque, curID]                                            *)

NewPendingQueue == [deque |-> <<>>, curID |-> 0]

\* an AddTask that links the new task at the head
PendingQueue_AddTask_First(p, contents) ==
    LET task == NewTask(FormatInt(p.curID), contents) IN
    [task |-> task,
     pending |-> [deque |-> TaskDeque_PushFirst(p.deque, task), curID |-> p.curID + 1]]

PendingQueue_AddTask(p, contents) ==
    LET task == NewTask(FormatInt(p.curID), contents) IN
    [task |-> task,
     pending |-> [deque |-> TaskDeque_PushLast(p.deque, task), curID |-> p.curID + 1]]

\* AddTask with a limit on the number of pending tasks: a limit that is not
\* positive is no limit; a refused task gets no ID
PendingQueue_AddTaskLimit(p, contents, limit) ==
    IF limit > 0 /\ Len(p.deque) >= limit
    THEN [task |-> Nil, ok |-> FALSE, pending |-> p]
    ELSE LET r == PendingQueue_AddTask(p, contents) IN
         [task |-> r.task, ok |-> TRUE, pending |-> r.pending]

PendingQueue_PushTask(p, t) == [p EXCEPT !.deque = TaskDeque_PushLast(@, t)]

PendingQueue_PopTask(p) ==
    LET r == TaskDeque_PopFirst(p.deque) IN
    [task |-> r.task, pending |-> [p EXCEPT !.deque = r.deque]]

PendingQueue_Len(p) == TaskDeque_Len(p.deque)

PendingQueue_Clear(p) == [p EXCEPT !.deque = <<>>]

PendingQueue_Encode(p) == [Deque |-> TaskDeque_Encode(p.deque), CurID |-> p.curID]

DecodePendingQueue(obj) == [deque |-> DecodeTaskDeque(obj.Deque), curID |-> obj.CurID]

PendingQueue_PeekTask(p) ==
    LET t == TaskDeque_PeekFirst(p.deque) IN
    IF t = Nil THEN Nil ELSE Some(NewTask(t[1].ID, t[1].Contents))

----------------------------------------------------------------------------
(* RunningQueue: [idToTask, deque, timeout]. idToTask is the key set of    *)
(* the map; the task a key maps to is the task object with that ID.        *)

NewRunningQueue(timeout) == [idToTask |-> {}, deque |-> <<>>, timeout |-> timeout]

RunningQueue_StartedTask(r, t, timeout, clock) ==
    LET d == IF timeout = Nil THEN r.timeout ELSE timeout[1]
        started == [t EXCEPT !.expiration = clock + d]
    IN
    [r EXCEPT !.idToTask = @ \cup {t.ID},
              !.deque = TaskDeque_PushByExpiration(@, started)]

\* a PopExpired that hands out the head whether or not it has expired
RunningQueue_PopExpired_Unchecked(r, clock) ==
    LET task == TaskDeque_PeekFirst(r.deque) IN
    IF task = Nil THEN [task |-> Nil, nextTry |-> Nil, running |-> r]
    ELSE [task |-> task, nextTry |-> Nil,
          running |-> [r EXCEPT !.deque = TaskDeque_Remove(@, task[1].ID),
                                !.idToTask = @ \ {task[1].ID}]]

RunningQueue_PopExpired(r, clock) ==
    LET task == TaskDeque_PeekFirst(r.deque) IN
    IF task = Nil THEN [task |-> Nil, nextTry |-> Nil, running |-> r]
    ELSE IF task[1].expiration > clock
    THEN [task |-> Nil, nextTry |-> Some(task[1].expiration), running |-> r]
    ELSE [task |-> task, nextTry |-> Nil,
          running |-> [r EXCEPT !.deque = TaskDeque_Remove(@, task[1].ID),
                                !.idToTask = @ \ {task[1].ID}]]

RunningQueue_PeekExpired(r, clock) ==
    LET task == TaskDeque_PeekFirst(r.deque) IN
    IF task = Nil THEN [task |-> Nil, next |-> Nil, nextTry |-> Nil]
    ELSE IF task[1].expiration > clock
    THEN [task |-> Nil, next |-> Some(NewTask(task[1].ID, task[1].Contents)),
          nextTry |-> Some(task[1].expiration)]
    ELSE [task |-> Some(NewTask(task[1].ID, task[1].Contents)), next |-> Nil,
          nextTry |-> Nil]

\* a Completed that leaves the id in the map
RunningQueue_Completed_KeepKey(r, id) ==
    IF id \notin r.idToTask \/ ~TaskDeque_Has(r.deque, id)
    THEN [task |-> Nil, panic |-> FALSE, running |-> r]
    ELSE [task |-> Some(r.deque[TaskDeque_Index(r.deque, id)]), panic |-> FALSE,
          running |-> [r EXCEPT !.deque = TaskDeque_Remove(@, id)]]

\* panic: TaskDeque.Remove was given a task that is not linked into the deque
RunningQueue_Completed(r, id) ==
    IF id \notin r.idToTask THEN [task |-> Nil, panic |-> FALSE, running |-> r]
    ELSE IF ~TaskDeque_Has(r.deque, id) THEN [task |-> Nil, panic |-> TRUE, running |-> r]
    ELSE [task |-> Some(r.deque[TaskDeque_Index(r.deque, id)]), panic |-> FALSE,
          running |-> [r EXCEPT !.deque = TaskDeque_Remove(@, id),
                                !.idToTask = @ \ {id}]]

\* a Keepalive that writes the new expiration where the task is
RunningQueue_Keepalive_InPlace(r, id, timeout, clock) ==
    IF id \notin r.idToTask THEN [ok |-> FALSE, panic |-> FALSE, running |-> r]
    ELSE IF ~TaskDeque_Has(r.deque, id) THEN [ok |-> FALSE, panic |-> TRUE, running |-> r]
    ELSE LET d == IF timeout = Nil THEN r.timeout ELSE timeout[1]
         IN [ok |-> TRUE, panic |-> FALSE,
             running |-> [r EXCEPT !.deque[TaskDeque_Index(r.deque, id)].expiration
                                       = clock + d]]

RunningQueue_Keepalive(r, id, timeout, clock) ==
    IF id \notin r.idToTask THEN [ok |-> FALSE, panic |-> FALSE, running |-> r]
    ELSE IF ~TaskDeque_Has(r.deque, id) THEN [ok |-> FALSE, panic |-> TRUE, running |-> r]
    ELSE LET task == r.deque[TaskDeque_Index(r.deque, id)]
             removed == [r EXCEPT !.deque = TaskDeque_Remove(@, id)]
         IN [ok |-> TRUE, panic |-> FALSE,
             running |-> RunningQueue_StartedTask(removed, task, timeout, clock)]

RunningQueue_Len(r) == TaskDeque_Len(r.deque)

\* walks from the head and stops at the first task that is not expired
RECURSIVE CountExpiredFrom(_, _, _)
CountExpiredFrom(d, i, clock) ==
    IF i <= Len(d) /\ ~(d[i].expiration > clock)
    THEN 1 + CountExpiredFrom(d, i + 1, clock)
    ELSE 0

\* a NumExpired that looks at the head of the deque and no further
RunningQueue_NumExpired_HeadOnly(r, clock) ==
    IF Len(r.deque) > 0 /\ ~(r.deque[1].expiration > clock) THEN 1 ELSE 0

RunningQueue_NumExpired(r, clock) == CountExpiredFrom(r.deque, 1, clock)

\* an ExpireAll that counts every task and expires the head of the deque only
RunningQueue_ExpireAll_First(r) ==
    [n |-> Cardinality(r.idToTask),
     running |-> [r EXCEPT !.deque =
         [i \in 1..Len(@) |->
             IF i = 1 THEN [@[i] EXCEPT !.expiration = ZeroTime] ELSE @[i]]]]

\* every task the map holds gets the zero time; the deque is not touched otherwise
RunningQueue_ExpireAll(r) ==
    [n |-> Cardinality(r.idToTask),
     running |-> [r EXCEPT !.deque =
         [i \in 1..Len(@) |->
             IF @[i].ID \in r.idToTask THEN [@[i] EXCEPT !.expiration = ZeroTime]
             ELSE @[i]]]]

RunningQueue_Clear(r) == [r EXCEPT !.idToTask = {}, !.deque = <<>>]

RunningQueue_Encode(r) == [Deque |-> TaskDeque_Encode(r.deque), Timeout |-> r.timeout]

DecodeRunningQueue(obj) ==
    LET deque == DecodeTaskDeque(obj.Deque) IN
    [idToTask |-> DequeIds(deque), deque |-> deque, timeout |-> obj.Timeout]

----------------------------------------------------------------------------
(* QueueState: [pending, running, completionCounter, rateTracker]. Every   *)
(* method runs under the QueueState's lock, so each is one step; a method  *)
(* yields the new QueueState (qs) next to what it returns.                 *)

NewQueueState(timeout) ==
    [pending |-> NewPendingQueue,
     running |-> NewRunningQueue(timeout),
     completionCounter |-> 0,
     rateTracker |-> NewRateTracker(0)]

QueueState_Push(q, contents) ==
    LET r == PendingQueue_AddTask(q.pending, contents) IN
    [id |-> r.task.ID, qs |-> [q EXCEPT !.pending = r.pending]]

\* Push(contents, limit) as ServePushTask calls it
QueueState_PushLimit(q, contents, limit) ==
    LET r == PendingQueue_AddTaskLimit(q.pending, contents, limit) IN
    IF r.ok
    THEN [id |-> r.task.ID, ok |-> TRUE, qs |-> [q EXCEPT !.pending = r.pending]]
    ELSE [id |-> Nil, ok |-> FALSE, qs |-> q]

\* a Pop that looks for an expired running task before it looks at pending
QueueState_Pop_ExpiredFirst(q, timeout, clock) ==
    LET nextExpired == RunningQueue_PopExpired(q.running, clock) IN
    IF nextExpired.task # Nil
    THEN [task |-> nextExpired.task, nextTry |-> Nil,
          qs |-> [q EXCEPT !.running = RunningQueue_StartedTask(
                      nextExpired.running, nextExpired.task[1], timeout, clock)]]
    ELSE LET nextPending == PendingQueue_PopTask(q.pending) IN
         IF nextPending.task # Nil
         THEN [task |-> nextPending.task, nextTry |-> Nil,
               qs |-> [q EXCEPT !.pending = nextPending.pending,
                                !.running = RunningQueue_StartedTask(
                                    @, nextPending.task[1], timeout, clock)]]
         ELSE [task |-> Nil, nextTry |-> nextExpired.nextTry, qs |-> q]

QueueState_Pop(q, timeout, clock) ==
    LET nextPending == PendingQueue_PopTask(q.pending) IN
    IF nextPending.task # Nil
    THEN [task |-> nextPending.task, nextTry |-> Nil,
          qs |-> [q EXCEPT !.pending = nextPending.pending,
                           !.running = RunningQueue_StartedTask(
                               @, nextPending.task[1], timeout, clock)]]
    ELSE LET nextExpired == RunningQueue_PopExpired(q.running, clock) IN
         IF nextExpired.task # Nil
         THEN [task |-> nextExpired.task, nextTry |-> Nil,
               qs |-> [q EXCEPT !.running = RunningQueue_StartedTask(
                           nextExpired.running, nextExpired.task[1], timeout, clock)]]
         ELSE [task |-> Nil, nextTry |-> nextExpired.nextTry, qs |-> q]

\* first loop of PopBatch
RECURSIVE DrainPending(_, _, _)
DrainPending(p, n, tasks) ==
    IF Len(tasks) < n
    THEN LET r == PendingQueue_PopTask(p) IN
         IF r.task = Nil THEN [tasks |-> tasks, pending |-> p]
         ELSE DrainPending(r.pending, n, Append(tasks, r.task[1]))
    ELSE [tasks |-> tasks, pending |-> p]

\* second loop of PopBatch
RECURSIVE DrainExpired(_, _, _, _, _)
DrainExpired(r, n, tasks, nextTry, clock) ==
    IF Len(tasks) < n
    THEN LET e == RunningQueue_PopExpired(r, clock) IN
         IF e.task = Nil THEN [tasks |-> tasks, nextTry |-> e.nextTry, running |-> r]
         ELSE DrainExpired(e.running, n, Append(tasks, e.task[1]), e.nextTry, clock)
    ELSE [tasks |-> tasks, nextTry |-> nextTry, running |-> r]

\* third loop of PopBatch
RECURSIVE StartAll(_, _, _, _, _)
StartAll(r, tasks, i, timeout, clock) ==
    IF i > Len(tasks) THEN r
    ELSE StartAll(RunningQueue_StartedTask(r, tasks[i], timeout, clock),
                  tasks, i + 1, timeout, clock)

\* a PopBatch that starts the tasks it took from pending and leaves them linked there
QueueState_PopBatch_KeepPending(q, n, timeout, clock) ==
    LET fromPending == DrainPending(q.pending, n, <<>>)
        fromExpired == DrainExpired(q.running, n, fromPending.tasks, Nil, clock)
    IN
    [tasks |-> fromExpired.tasks, nextTry |-> fromExpired.nextTry,
     qs |-> [q EXCEPT !.running = StartAll(fromExpired.running, fromExpired.tasks,
                                           1, timeout, clock)]]

QueueState_PopBatch(q, n, timeout, clock) ==
    LET fromPending == DrainPending(q.pending, n, <<>>)
        fromExpired == DrainExpired(q.running, n, fromPending.tasks, Nil, clock)
    IN
    [tasks |-> fromExpired.tasks, nextTry |-> fromExpired.nextTry,
     qs |-> [q EXCEPT !.pending = fromPending.pending,
                      !.running = StartAll(fromExpired.running, fromExpired.tasks,
                                           1, timeout, clock)]]

QueueState_Peek(q, clock) ==
    LET nextPending == PendingQueue_PeekTask(q.pending) IN
    IF nextPending # Nil THEN [task |-> nextPending, next |-> Nil, nextTry |-> Nil]
    ELSE RunningQueue_PeekExpired(q.running, clock)

\* a Completed that counts the call before it looks the id up
QueueState_Completed_CountFirst(q, id, clock) ==
    LET r == RunningQueue_Completed(q.running, id) IN
    [res |-> r.task # Nil, panic |-> r.panic,
     qs |-> [q EXCEPT !.running = r.running,
                      !.completionCounter = @ + 1,
                      !.rateTracker = RateTracker_AddAt(@, clock, 1)]]

\* a Completed that turns down a task whose expiration has passed
QueueState_Completed_UnexpiredOnly(q, id, clock) ==
    LET r == RunningQueue_Completed(q.running, id)
        res == r.task # Nil /\ r.task[1].expiration > clock
    IN
    [res |-> res, panic |-> r.panic,
     qs |-> IF res
            THEN [q EXCEPT !.running = r.running,
                           !.completionCounter = @ + 1,
                           !.rateTracker = RateTracker_AddAt(@, clock, 1)]
            ELSE q]

QueueState_Completed(q, id, clock) ==
    LET r == RunningQueue_Completed(q.running, id)
        res == r.task # Nil
    IN
    [res |-> res, panic |-> r.panic,
     qs |-> IF res
            THEN [q EXCEPT !.running = r.running,
                           !.completionCounter = @ + 1,
                           !.rateTracker = RateTracker_AddAt(@, clock, 1)]
            ELSE q]

QueueState_Keepalive(q, id, timeout, clock) ==
    LET r == RunningQueue_Keepalive(q.running, id, timeout, clock) IN
    [res |-> r.ok, panic |-> r.panic, qs |-> [q EXCEPT !.running = r.running]]

MinInt(a, b) == IF a < b THEN a ELSE b

\* Rate is the pair <<events, seconds>> standing for events / seconds
QueueState_Counts(q, rateSeconds, clock) ==
    LET runningTotal == RunningQueue_Len(q.running)
        runningExpired == RunningQueue_NumExpired(q.running, clock)
        window == MinInt(rateSeconds, RateTracker_HistorySize(q.rateTracker))
        counted == RateTracker_CountAt(q.rateTracker, clock, window)
    IN
    [counts |-> [Pending |-> PendingQueue_Len(q.pending),
                 Running |-> runningTotal - runningExpired,
                 Expired |-> runningExpired,
                 Completed |-> q.completionCounter,
                 Rate |-> IF rateSeconds > 0 THEN Some(<<counted.count, window>>) ELSE Nil],
     qs |-> IF rateSeconds > 0 THEN [q EXCEPT !.rateTracker = counted.rateTracker] ELSE q]

\* a Clear that empties the two queues and keeps the counter and the rate
QueueState_Clear_QueuesOnly(q) ==
    [q EXCEPT !.pending = PendingQueue_Clear(@), !.running = RunningQueue_Clear(@)]

QueueState_Clear(q) ==
    [pending |-> PendingQueue_Clear(q.pending),
     running |-> RunningQueue_Clear(q.running),
     completionCounter |-> 0,
     rateTracker |-> RateTracker_Reset(q.rateTracker)]

QueueState_Cleared(q) ==
    /\ PendingQueue_Len(q.pending) = 0
    /\ RunningQueue_Len(q.running) = 0
    /\ q.completionCounter = 0

QueueState_ExpireAll(q) ==
    LET r == RunningQueue_ExpireAll(q.running) IN
    [n |-> r.n, qs |-> [q EXCEPT !.running = r.running]]

\* the loop of QueueExpired
RECURSIVE MoveExpired(_, _, _, _)
MoveExpired(p, r, n, clock) ==
    LET e == RunningQueue_PopExpired(r, clock) IN
    IF e.task = Nil THEN [n |-> n, pending |-> p, running |-> r]
    ELSE MoveExpired(PendingQueue_PushTask(p, e.task[1]), e.running, n + 1, clock)

\* a QueueExpired that takes the expired tasks out of running and loses them
QueueState_QueueExpired_Drop(q, clock) ==
    LET m == MoveExpired(q.pending, q.running, 0, clock) IN
    [n |-> m.n, qs |-> [q EXCEPT !.running = m.running]]

\* a QueueExpired that puts the expired tasks in front of the pending ones
QueueState_QueueExpired_Front(q, clock) ==
    LET m == MoveExpired([q.pending EXCEPT !.deque = <<>>], q.running, 0, clock) IN
    [n |-> m.n,
     qs |-> [q EXCEPT !.pending.deque = m.pending.deque \o @, !.running = m.running]]

QueueState_QueueExpired(q, clock) ==
    LET m == MoveExpired(q.pending, q.running, 0, clock) IN
    [n |-> m.n, qs |-> [q EXCEPT !.pending = m.pending, !.running = m.running]]

\* the test helper Expire(id): the task's expiration becomes the zero time
QueueState_Expire(q, id) ==
    IF id \in q.running.idToTask /\ TaskDeque_Has(q.running.deque, id)
    THEN [res |-> TRUE,
          qs |-> [q EXCEPT !.running.deque[TaskDeque_Index(q.running.deque, id)].expiration
                               = ZeroTime]]
    ELSE [res |-> FALSE, qs |-> q]

QueueState_Encode(q) ==
    [Pending |-> PendingQueue_Encode(q.pending),
     Running |-> RunningQueue_Encode(q.running),
     Completed |-> q.completionCounter,
     RateTracker |-> RateTracker_Encode(q.rateTracker)]

DecodeQueueState(obj) ==
    [pending |-> DecodePendingQueue(obj.Pending),
     running |-> DecodeRunningQueue(obj.Running),
     completionCounter |-> obj.Completed,
     rateTracker |-> DecodeRateTracker(obj.RateTracker)]

----------------------------------------------------------------------------
(* The server: request goroutines call QueueStateMux.Get(name, f), and f   *)
(* calls QueueState methods (one, or several in a row as the batch         *)
(* handlers do). Get is the entry under the mux lock, the calls made by f, *)
(* and the deferred exit under the mux lock.                               *)

Idle == [pc |-> "idle", name |-> ""]

Range(seq) == {seq[i] : i \in 1..Len(seq)}

RECURSIVE SumLen(_, _)
SumLen(f, S) ==
    IF S = {} THEN 0
    ELSE LET x == CHOOSE y \in S : TRUE IN Len(f[x]) + SumLen(f, S \ {x})

Pushes == SumLen(pushLog, Contexts)

\* a goroutine that is not inside Counts
NotCounting == [pc |-> "idle", curTime |-> 0, t |-> 0, branch |-> "", shift |-> 0, res |-> 0]

\* the nil *Task
NilTask == 0

\* the Task objects, by address
Tasks == 1..MaxTasks

\* two deques, as the pending and the running queue each have one
Deques == {"d1", "d2"}

\* &Task{Contents: ...}: the objects differ in the length of their contents
NewTaskObject(i) ==
    [Contents |-> [j \in 1..(i - 1) |-> "x"], expiration |-> ZeroTime,
     queuePrev |-> NilTask, queueNext |-> NilTask]

\* &TaskDeque{}
NewTaskDeque == [first |-> NilTask, last |-> NilTask, count |-> 0, bytes |-> 0]

Init ==
    /\ queues = <<>>
    /\ users = <<>>
    /\ now = StartTime
    /\ thr = [t \in Threads |-> Idle]
    /\ pushLog = [n \in Contexts |-> <<>>]
    /\ staleIds = [n \in Contexts |-> {}]
    /\ doneIds = [n \in Contexts |-> {}]
    /\ net = [n \in Contexts |-> 0]
    /\ rt = NewRateTracker(RateHistory)
    /\ rtLog = <<>>
    /\ saveLock = FALSE
    /\ saveStates = <<>>
    /\ numAttempts = [n \in Contexts |-> [id \in IdSpace |-> 0]]
    /\ delivered = [n \in Contexts |-> [id \in IdSpace |-> 0]]
    /\ kept = [n \in Contexts |-> {}]
    /\ source = NewQueueState(DefaultTimeout)
    /\ dest = NewQueueState(DefaultTimeout)
    /\ xfer = [pc |-> "pop", tasks |-> <<>>]
    /\ srcLog = {}
    /\ savePath = Nil
    /\ tmpPath = Nil
    /\ saveLoop = "wait"
    /\ heap = [t \in Tasks |-> NewTaskObject(t)]
    /\ deques = [d \in Deques |-> NewTaskDeque]
    /\ dequePanic = ""
    /\ strays = 0
    /\ saveWait = FALSE
    /\ iter = [pc |-> "idle", names |-> <<>>]
    /\ visited = <<>>
    /\ counting = [g \in Threads |-> NotCounting]
    /\ rt0 = rt
    /\ rtFrom = "new"
    /\ rtPanic = ""

\* some goroutine is inside Get(name, f), so f can call a method of the QueueState
InCall(name) == \E t \in Threads : thr[t] = [pc |-> "in", name |-> name]

SetQueue(name, q) == queues' = [queues EXCEPT ![name] = q]

History == <<pushLog, staleIds, doneIds, net>>

\* what Serialize works on
Saver == <<saveLock, saveStates>>

\* the attempts of the tasks, and what has happened to the tasks
Counted == <<numAttempts, delivered, kept>>

\* the two servers of a transfer, and the transfer
Transfer == <<source, dest, xfer, srcLog>>

\* the files of the save loop, and the save loop
Files == <<savePath, tmpPath, saveLoop>>

\* what belongs to the programs beside the server
\* what the program that works on TaskDeques alone works on
Links == <<heap, deques, dequePanic, strays>>

\* what Iterate, and a Serialize that waits for its lock, work on
Walk == <<saveWait, iter, visited>>

\* what Counts calls that run at the same time work on, beside rt
Race == <<counting, rt0>>

\* what is known of a rate tracker that DecodeRateTracker produced
Restored == <<rtFrom, rtPanic>>

Rest == <<Links, Walk, Race, Restored>>

Extra == <<Transfer, Files, Rest>>

\* the variables that the operations of the server leave alone
Aux == <<rt, rtLog, Saver, Counted, Extra>>

\* a Get that does not take saveLock
GetEnter_NoSaveLock(t, name) ==
    /\ thr[t].pc = "idle"
    /\ queues' = IF name \in DOMAIN queues THEN queues
                 ELSE [n \in DOMAIN queues \cup {name} |->
                          IF n = name THEN NewQueueState(DefaultTimeout) ELSE queues[n]]
    /\ users' = [n \in DOMAIN users \cup {name} |->
                    IF n = name
                    THEN (IF name \in DOMAIN users THEN users[name] ELSE 0) + 1
                    ELSE users[n]]
    /\ thr' = [thr EXCEPT ![t] = [pc |-> "in", name |-> name]]
    /\ UNCHANGED <<now, History, Aux>>

\* QueueStateMux.Get, up to the call of f
GetEnter(t, name) ==
    /\ thr[t].pc = "idle"
    /\ ~saveLock
    /\ ~saveWait
    /\ queues' = IF name \in DOMAIN queues THEN queues
                 ELSE [n \in DOMAIN queues \cup {name} |->
                          IF n = name THEN NewQueueState(DefaultTimeout) ELSE queues[n]]
    /\ users' = [n \in DOMAIN users \cup {name} |->
                    IF n = name
                    THEN (IF name \in DOMAIN users THEN users[name] ELSE 0) + 1
                    ELSE users[n]]
    /\ thr' = [thr EXCEPT ![t] = [pc |-> "in", name |-> name]]
    /\ UNCHANGED <<now, History, Aux>>

\* a deferred exit that deletes the context as soon as it has no users
GetExit_NoClearedCheck(t) ==
    /\ thr[t].pc = "in"
    /\ LET name == thr[t].name
           left == users[name] - 1
       IN IF left = 0
          THEN /\ users' = [n \in DOMAIN users \ {name} |-> users[n]]
               /\ queues' = [n \in DOMAIN queues \ {name} |-> queues[n]]
          ELSE /\ users' = [users EXCEPT ![name] = left]
               /\ UNCHANGED queues
    /\ thr' = [thr EXCEPT ![t] = Idle]
    /\ UNCHANGED <<now, History, Aux>>

\* a deferred exit that deletes a cleared context whoever else is using it
GetExit_IgnoreUsers(t) ==
    /\ thr[t].pc = "in"
    /\ LET name == thr[t].name
           left == users[name] - 1
       IN IF QueueState_Cleared(queues[name])
          THEN /\ users' = [n \in DOMAIN users \ {name} |-> users[n]]
               /\ queues' = [n \in DOMAIN queues \ {name} |-> queues[n]]
          ELSE /\ users' = [users EXCEPT ![name] = left]
               /\ UNCHANGED queues
    /\ thr' = [thr EXCEPT ![t] = Idle]
    /\ UNCHANGED <<now, History, Aux>>

\* QueueStateMux.Get, the deferred function run when f has returned
GetExit(t) ==
    /\ thr[t].pc = "in"
    /\ LET name == thr[t].name
           left == users[name] - 1
       IN IF left = 0 /\ QueueState_Cleared(queues[name])
          THEN /\ users' = [n \in DOMAIN users \ {name} |-> users[n]]
               /\ queues' = [n \in DOMAIN queues \ {name} |-> queues[n]]
          ELSE /\ users' = [users EXCEPT ![name] = left]
               /\ UNCHANGED queues
    /\ thr' = [thr EXCEPT ![t] = Idle]
    /\ UNCHANGED <<now, History, Aux>>

Push(name, contents) ==
    /\ InCall(name)
    /\ Pushes < MaxPush
    /\ LET r == QueueState_Push(queues[name], contents)
       IN /\ SetQueue(name, r.qs)
          /\ pushLog' = [pushLog EXCEPT ![name] = Append(@, r.id)]
          /\ net' = [net EXCEPT ![name] = @ + 1]
    /\ UNCHANGED <<users, now, thr, staleIds, doneIds, Aux>>

\* ServePushTask with a limit parameter
PushLimit(name, contents, limit) ==
    /\ InCall(name)
    /\ Pushes < MaxPush
    /\ LET r == QueueState_PushLimit(queues[name], contents, limit)
       IN /\ SetQueue(name, r.qs)
          /\ pushLog' = [pushLog EXCEPT ![name] = IF r.ok THEN Append(@, r.id) ELSE @]
          /\ net' = [net EXCEPT ![name] = IF r.ok THEN @ + 1 ELSE @]
    /\ UNCHANGED <<users, now, thr, staleIds, doneIds, Aux>>

Pop(name, timeout) ==
    /\ InCall(name)
    /\ LET r == QueueState_Pop(queues[name], timeout, now)
       IN /\ SetQueue(name, r.qs)
    /\ UNCHANGED <<users, now, thr, History, Aux>>

PopBatch(name, n, timeout) ==
    /\ InCall(name)
    /\ LET r == QueueState_PopBatch(queues[name], n, timeout, now)
       IN /\ SetQueue(name, r.qs)
    /\ UNCHANGED <<users, now, thr, History, Aux>>

Completed(name, id) ==
    /\ InCall(name)
    /\ LET r == QueueState_Completed(queues[name], id, now)
       IN /\ SetQueue(name, r.qs)
          /\ doneIds' = IF r.res THEN [doneIds EXCEPT ![name] = @ \cup {id}] ELSE doneIds
          /\ net' = IF r.res THEN [net EXCEPT ![name] = @ - 1] ELSE net
    /\ UNCHANGED <<users, now, thr, pushLog, staleIds, Aux>>

Keepalive(name, id, timeout) ==
    /\ InCall(name)
    /\ LET r == QueueState_Keepalive(queues[name], id, timeout, now)
       IN /\ SetQueue(name, r.qs)
    /\ UNCHANGED <<users, now, thr, History, Aux>>

Counts(name, rateSeconds) ==
    /\ InCall(name)
    /\ LET r == QueueState_Counts(queues[name], rateSeconds, now)
       IN /\ SetQueue(name, r.qs)
    /\ UNCHANGED <<users, now, thr, History, Aux>>

Clear(name) ==
    /\ InCall(name)
    /\ LET q == queues[name]
       IN /\ SetQueue(name, QueueState_Clear(q))
          /\ staleIds' = [staleIds EXCEPT ![name] = @ \cup Range(pushLog[name])]
          /\ net' = [net EXCEPT ![name] =
                        @ - (PendingQueue_Len(q.pending) + RunningQueue_Len(q.running))]
    /\ UNCHANGED <<users, now, thr, pushLog, doneIds, Aux>>

ExpireAll(name) ==
    /\ InCall(name)
    /\ LET r == QueueState_ExpireAll(queues[name])
       IN /\ SetQueue(name, r.qs)
    /\ UNCHANGED <<users, now, thr, History, Aux>>

QueueExpired(name) ==
    /\ InCall(name)
    /\ LET r == QueueState_QueueExpired(queues[name], now)
       IN /\ SetQueue(name, r.qs)
    /\ UNCHANGED <<users, now, thr, History, Aux>>

\* a second of wall-clock time passes
Tick ==
    /\ now < StartTime + MaxTicks
    /\ now' = now + 1
    /\ UNCHANGED <<queues, users, thr, History, Aux>>

\* QueueStateMux.Serialize of every context
SerializeMux == [n \in DOMAIN queues |-> [Name |-> n, Encoded |-> QueueState_Encode(queues[n])]]

\* DeserializeQueueStateMux of the ContextStates of a snapshot
DeserializeQueueStateMux(states) ==
    [queues |-> [n \in DOMAIN states |-> DecodeQueueState(states[n].Encoded)],
     users |-> [n \in DOMAIN states |-> 0]]

\* the server saves its state (no Get is in flight while Serialize holds
\* saveLock), stops, and starts again from the snapshot
Restart ==
    /\ \A t \in Threads : thr[t].pc = "idle"
    /\ queues # <<>>
    /\ LET res == DeserializeQueueStateMux(SerializeMux)
       IN /\ queues' = res.queues
          /\ users' = res.users
    /\ UNCHANGED <<now, thr, History, Aux>>

Next ==
    \/ \E t \in Threads, name \in Names : GetEnter(t, name)
    \/ \E t \in Threads : GetExit(t)
    \/ \E name \in Names, contents \in Contents : Push(name, contents)
    \/ \E name \in Names, timeout \in TimeoutParams : Pop(name, timeout)
    \/ \E name \in Names, n \in 1..MaxBatch, timeout \in TimeoutParams :
           PopBatch(name, n, timeout)
    \/ \E name \in Names, id \in IdSpace : Completed(name, id)
    \/ \E name \in Names, id \in IdSpace, timeout \in TimeoutParams :
           Keepalive(name, id, timeout)
    \/ \E name \in Names, rateSeconds \in RateWindows : Counts(name, rateSeconds)
    \/ \E name \in Names : Clear(name)
    \/ \E name \in Names : ExpireAll(name)
    \/ \E name \in Names : QueueExpired(name)
    \/ Tick
    \/ Restart

Spec == Init /\ [][Next]_vars

----------------------------------------------------------------------------
(* Restricted and extended sets of operations.                             *)

\* a second passes during which no running task times out
TickQuiet ==
    /\ \A name \in DOMAIN queues :
           \A i \in 1..Len(queues[name].running.deque) :
               queues[name].running.deque[i].expiration > now + 1
    /\ Tick

\* the test helper Expire(id), called on the QueueState inside Get
Expire(name, id) ==
    /\ InCall(name)
    /\ LET r == QueueState_Expire(queues[name], id)
       IN /\ SetQueue(name, r.qs)
    /\ UNCHANGED <<users, now, thr, History, Aux>>

\* workers and producers only: pushes, pops and the passing of time
NextPop ==
    \/ \E t \in Threads, name \in Names : GetEnter(t, name)
    \/ \E t \in Threads : GetExit(t)
    \/ \E name \in Names, contents \in Contents : Push(name, contents)
    \/ \E name \in Names, timeout \in TimeoutParams : Pop(name, timeout)
    \/ \E name \in Names, n \in 1..MaxBatch, timeout \in TimeoutParams :
           PopBatch(name, n, timeout)
    \/ Tick

SpecPop == Init /\ [][NextPop]_vars

\* a quiescent queue: pushes, pops and reads of the counts, and no task times out
NextFifo ==
    \/ \E t \in Threads, name \in Names : GetEnter(t, name)
    \/ \E t \in Threads : GetExit(t)
    \/ \E name \in Names, contents \in Contents : Push(name, contents)
    \/ \E name \in Names, timeout \in TimeoutParams : Pop(name, timeout)
    \/ \E name \in Names, rateSeconds \in RateWindows : Counts(name, rateSeconds)
    \/ TickQuiet

SpecFifo == Init /\ [][NextFifo]_vars

\* every operation of the QueueState, the test helper Expire(id) included
NextExpire ==
    \/ Next
    \/ \E name \in Names, id \in IdSpace : Expire(name, id)

SpecExpire == Init /\ [][NextExpire]_vars

\* producers that push with a limit, and workers
NextLimit ==
    \/ \E t \in Threads, name \in Names : GetEnter(t, name)
    \/ \E t \in Threads : GetExit(t)
    \/ \E name \in Names, contents \in Contents, limit \in Limits :
           PushLimit(name, contents, limit)
    \/ \E name \in Names, timeout \in TimeoutParams : Pop(name, timeout)
    \/ \E name \in Names, id \in IdSpace : Completed(name, id)
    \/ Tick

SpecLimit == Init /\ [][NextLimit]_vars

\* QueueStateMux.Serialize: saveLock.Lock() returns when no Get holds the read lock
SerializeLock ==
    /\ ~saveLock
    /\ \A t \in Threads : thr[t].pc = "idle"
    /\ saveLock' = TRUE
    /\ saveStates' = <<>>
    /\ UNCHANGED <<queues, users, now, thr, History, rt, rtLog, Counted, Extra>>

\* one pass of the loop over q.queues, in the order the map gives
SerializeEncode(name) ==
    /\ saveLock
    /\ name \in DOMAIN queues \ DOMAIN saveStates
    /\ saveStates' = [n \in DOMAIN saveStates \cup {name} |->
                     IF n = name
                     THEN [Name |-> name, Encoded |-> QueueState_Encode(queues[name])]
                     ELSE saveStates[n]]
    /\ UNCHANGED <<queues, users, now, thr, History, rt, rtLog, saveLock, Counted, Extra>>

\* saveLock.Unlock() after the loop; the states are then written out
SerializeUnlock ==
    /\ saveLock
    /\ DOMAIN saveStates = DOMAIN queues
    /\ saveLock' = FALSE
    /\ saveStates' = <<>>
    /\ UNCHANGED <<queues, users, now, thr, History, rt, rtLog, Counted, Extra>>

\* a server with two contexts that is saved while requests come in
NextSnapshot ==
    \/ \E t \in Threads, name \in Contexts : GetEnter(t, name)
    \/ \E t \in Threads : GetExit(t)
    \/ \E name \in Contexts, contents \in Contents : Push(name, contents)
    \/ \E name \in Contexts, timeout \in TimeoutParams : Pop(name, timeout)
    \/ SerializeLock
    \/ \E name \in Contexts : SerializeEncode(name)
    \/ SerializeUnlock

SpecSnapshot == Init /\ [][NextSnapshot]_vars

----------------------------------------------------------------------------
(* Task.numAttempts. The field is kept beside the queues, per context and  *)
(* id; a task that leaves the queue gives its entry back.                  *)

\* a StartedTask that counts every call
StartedTask_numAttempts_Always(n, newDelivery) == n + 1

\* what RunningQueue.StartedTask does to t.numAttempts: a delivery by Pop or
\* PopBatch counts, the re-insertion by Keepalive does not
StartedTask_numAttempts(n, newDelivery) == IF newDelivery THEN n + 1 ELSE n

\* the numAttempts of the tasks that DecodeTaskDeque builds: an EncodedTask
\* is {ID, Contents, Expiration}, so the field has its zero value
DecodeTaskDeque_numAttempts(a) == [id \in DOMAIN a |-> 0]

\* numAttempts after the tasks of one Pop or PopBatch went through StartedTask
Started(a, tasks) ==
    [id \in DOMAIN a |->
        IF id \in DequeIds(tasks) THEN StartedTask_numAttempts(a[id], TRUE) ELSE a[id]]

Returned(d, tasks) ==
    [id \in DOMAIN d |-> IF id \in DequeIds(tasks) THEN d[id] + 1 ELSE d[id]]

\* the tasks of a delivery are counted, up to MaxAttempts deliveries of a task
Counting(name, tasks) ==
    /\ \A id \in DequeIds(tasks) : delivered[name][id] < MaxAttempts
    /\ numAttempts' = [numAttempts EXCEPT ![name] = Started(@, tasks)]
    /\ delivered' = [delivered EXCEPT ![name] = Returned(@, tasks)]
    /\ UNCHANGED kept

PopCounted(name, timeout) ==
    /\ InCall(name)
    /\ LET r == QueueState_Pop(queues[name], timeout, now)
       IN /\ SetQueue(name, r.qs)
          /\ Counting(name, r.task)
    /\ UNCHANGED <<users, now, thr, History, rt, rtLog, Saver, Extra>>

PopBatchCounted(name, n, timeout) ==
    /\ InCall(name)
    /\ LET r == QueueState_PopBatch(queues[name], n, timeout, now)
       IN /\ SetQueue(name, r.qs)
          /\ Counting(name, r.tasks)
    /\ UNCHANGED <<users, now, thr, History, rt, rtLog, Saver, Extra>>

\* Keepalive removes the task and calls StartedTask again
KeepaliveCounted(name, id, timeout) ==
    /\ InCall(name)
    /\ LET r == QueueState_Keepalive(queues[name], id, timeout, now)
       IN /\ SetQueue(name, r.qs)
          /\ numAttempts' = IF r.res
                            THEN [numAttempts EXCEPT
                                     ![name][id] = StartedTask_numAttempts(@, FALSE)]
                            ELSE numAttempts
          /\ kept' = IF r.res THEN [kept EXCEPT ![name] = @ \cup {id}] ELSE kept
    /\ UNCHANGED <<users, now, thr, History, rt, rtLog, Saver, delivered, Extra>>

\* a completed task is gone, and its id stands for no task
CompletedCounted(name, id) ==
    /\ InCall(name)
    /\ LET r == QueueState_Completed(queues[name], id, now)
       IN /\ SetQueue(name, r.qs)
          /\ doneIds' = IF r.res THEN [doneIds EXCEPT ![name] = @ \cup {id}] ELSE doneIds
          /\ net' = IF r.res THEN [net EXCEPT ![name] = @ - 1] ELSE net
          /\ numAttempts' = IF r.res THEN [numAttempts EXCEPT ![name][id] = 0]
                            ELSE numAttempts
          /\ delivered' = IF r.res THEN [delivered EXCEPT ![name][id] = 0] ELSE delivered
          /\ kept' = IF r.res THEN [kept EXCEPT ![name] = @ \ {id}] ELSE kept
    /\ UNCHANGED <<users, now, thr, pushLog, staleIds, rt, rtLog, Saver, Extra>>

\* the server saves, stops and starts again: the tasks are built by
\* DecodeTaskDeque
RestartCounted ==
    /\ \A t \in Threads : thr[t].pc = "idle"
    /\ queues # <<>>
    /\ LET res == DeserializeQueueStateMux(SerializeMux)
       IN /\ queues' = res.queues
          /\ users' = res.users
    /\ numAttempts' = [n \in DOMAIN numAttempts |->
                          DecodeTaskDeque_numAttempts(numAttempts[n])]
    /\ UNCHANGED <<now, thr, History, rt, rtLog, Saver, delivered, kept, Extra>>

\* the operations that deliver, renew, requeue and complete tasks, and restarts
NextAttempts ==
    \/ \E t \in Threads, name \in Names : GetEnter(t, name)
    \/ \E t \in Threads : GetExit(t)
    \/ \E name \in Names, contents \in Contents : Push(name, contents)
    \/ \E name \in Names, timeout \in TimeoutParams : PopCounted(name, timeout)
    \/ \E name \in Names, n \in 1..MaxBatch, timeout \in TimeoutParams :
           PopBatchCounted(name, n, timeout)
    \/ \E name \in Names, id \in IdSpace, timeout \in TimeoutParams :
           KeepaliveCounted(name, id, timeout)
    \/ \E name \in Names, id \in IdSpace : CompletedCounted(name, id)
    \/ \E name \in Names : QueueExpired(name)
    \/ Tick
    \/ RestartCounted

SpecAttempts == Init /\ [][NextAttempts]_vars

\* the same server when it is never restarted
NextAttemptsUp ==
    \/ \E t \in Threads, name \in Names : GetEnter(t, name)
    \/ \E t \in Threads : GetExit(t)
    \/ \E name \in Names, contents \in Contents : Push(name, contents)
    \/ \E name \in Names, timeout \in TimeoutParams : PopCounted(name, timeout)
    \/ \E name \in Names, n \in 1..MaxBatch, timeout \in TimeoutParams :
           PopBatchCounted(name, n, timeout)
    \/ \E name \in Names, id \in IdSpace, timeout \in TimeoutParams :
           KeepaliveCounted(name, id, timeout)
    \/ \E name \in Names, id \in IdSpace : CompletedCounted(name, id)
    \/ \E name \in Names : QueueExpired(name)
    \/ Tick

SpecAttemptsUp == Init /\ [][NextAttemptsUp]_vars

----------------------------------------------------------------------------
(* tasq-transfer: main pops a batch from the source server, pushes its     *)
(* contents to the destination server and marks the batch completed at the *)
(* source. A request either gets an answer, or fails with a network error  *)
(* before or after the server has handled it.                              *)

\* the contents that producers give to the source server, each once
Payloads == {"p", "q"}

\* an answer with a success status, an answer with an error status (401, 400
\* or 503 from the handlers), and the two network errors
Outcomes == {"ok", "refused", "lostRequest", "lostResponse"}

\* the contents of the tasks that a server holds, pending or running
Held(q) ==
    {q.pending.deque[i].Contents : i \in 1..Len(q.pending.deque)}
        \cup {q.running.deque[i].Contents : i \in 1..Len(q.running.deque)}

\* ServePushBatch without a limit: every string becomes a task
RECURSIVE PushAll(_, _)
PushAll(q, contents) ==
    IF contents = <<>> THEN q
    ELSE PushAll(QueueState_Push(q, Head(contents)).qs, Tail(contents))

\* ServeCompletedBatch: Completed for every id, failures are only reported
RECURSIVE CompleteAll(_, _, _)
CompleteAll(q, ids, clock) ==
    IF ids = <<>> THEN q
    ELSE CompleteAll(QueueState_Completed(q, Head(ids), clock).qs, Tail(ids), clock)

TaskContents(tasks) == [i \in 1..Len(tasks) |-> tasks[i].Contents]

TaskIds(tasks) == [i \in 1..Len(tasks) |-> tasks[i].ID]

\* a producer of the source server
SourcePush(contents) ==
    /\ contents \notin srcLog
    /\ source' = QueueState_Push(source, contents).qs
    /\ srcLog' = srcLog \cup {contents}
    /\ UNCHANGED <<queues, users, now, thr, History, rt, rtLog, Saver, Counted, dest, xfer, Files, Rest>>

\* main: PopBatch(sourceHost, bs) and the branches on its response
TransferPopBatch(out, waitRunning) ==
    /\ xfer.pc = "pop"
    /\ out # "refused"
    /\ LET r == QueueState_PopBatch(source, MaxBatch, Nil, now) IN
       /\ source' = IF out = "lostRequest" THEN source ELSE r.qs
       /\ xfer' = IF out # "ok" THEN [pc |-> "fatal", tasks |-> <<>>]
                  ELSE IF Len(r.tasks) = 0 /\ r.nextTry = Nil
                  THEN [pc |-> "exit", tasks |-> <<>>]
                  ELSE IF Len(r.tasks) = 0
                  THEN [pc |-> IF waitRunning THEN "pop" ELSE "exit", tasks |-> <<>>]
                  ELSE [pc |-> "push", tasks |-> r.tasks]
    /\ UNCHANGED <<queues, users, now, thr, History, rt, rtLog, Saver, Counted, dest, srcLog, Files, Rest>>

\* main: PushBatch(destHost, response.Tasks); postStrings returns an error
\* only when the request got no answer
TransferPushBatch(out) ==
    /\ xfer.pc = "push"
    /\ dest' = IF out \in {"ok", "lostResponse"}
               THEN PushAll(dest, TaskContents(xfer.tasks))
               ELSE dest
    /\ xfer' = IF out \in {"ok", "refused"}
               THEN [xfer EXCEPT !.pc = "complete"]
               ELSE [pc |-> "fatal", tasks |-> <<>>]
    /\ UNCHANGED <<queues, users, now, thr, History, rt, rtLog, Saver, Counted, source, srcLog, Files, Rest>>

\* main: CompletedBatch(sourceHost, response.Tasks) and the next round
TransferCompletedBatch(out) ==
    /\ xfer.pc = "complete"
    /\ source' = IF out \in {"ok", "lostResponse"}
                 THEN CompleteAll(source, TaskIds(xfer.tasks), now)
                 ELSE source
    /\ xfer' = IF out \in {"ok", "refused"}
               THEN [pc |-> "pop", tasks |-> <<>>]
               ELSE [pc |-> "fatal", tasks |-> <<>>]
    /\ UNCHANGED <<queues, users, now, thr, History, rt, rtLog, Saver, Counted, dest, srcLog, Files, Rest>>

\* the program is interrupted between two requests
TransferInterrupted ==
    /\ xfer.pc \in {"pop", "push", "complete"}
    /\ xfer' = [pc |-> "fatal", tasks |-> <<>>]
    /\ UNCHANGED <<queues, users, now, thr, History, rt, rtLog, Saver, Counted,
                   source, dest, srcLog, Files, Rest>>

NextTransfer ==
    \/ \E contents \in Payloads : SourcePush(contents)
    \/ \E out \in Outcomes, waitRunning \in BOOLEAN : TransferPopBatch(out, waitRunning)
    \/ \E out \in Outcomes : TransferPushBatch(out)
    \/ \E out \in Outcomes : TransferCompletedBatch(out)
    \/ TransferInterrupted
    \/ Tick

SpecTransfer == Init /\ [][NextTransfer]_vars

----------------------------------------------------------------------------
(* Server.SaveLoop: every SaveInterval the state is written to the file    *)
(* SavePath + ".tmp", and that file is renamed to SavePath. A file is Nil  *)
(* when it does not exist, and else what it holds: whether it is a whole   *)
(* snapshot, and of which states.                                          *)

PartFile == [whole |-> FALSE, states |-> <<>>]

\* os.Create(tmpPath): the file exists and is empty, or log.Fatal
SaveCreate(ok) ==
    /\ saveLoop = "wait"
    /\ tmpPath' = IF ok THEN PartFile ELSE tmpPath
    /\ saveLoop' = IF ok THEN "serialize" ELSE "fatal"
    /\ UNCHANGED <<queues, users, now, thr, History, rt, rtLog, Saver, Counted, Transfer, Rest,
                   savePath>>

\* s.Queues.Serialize(w): the states of all queues once no Get is in flight,
\* then the writes; the error of a failed write is kept in err
SaveSerialize(ok) ==
    /\ saveLoop = "serialize"
    /\ \A t \in Threads : thr[t].pc = "idle"
    /\ tmpPath' = IF ok THEN [whole |-> TRUE, states |-> SerializeMux] ELSE PartFile
    /\ saveLoop' = IF ok THEN "close" ELSE "closeFailed"
    /\ UNCHANGED <<queues, users, now, thr, History, rt, rtLog, Saver, Counted, Transfer, Rest,
                   savePath>>

\* w.Close(), whose result is dropped, and then the test of err: a Close that
\* fails may have left data unwritten
SaveClose(ok, flushed) ==
    /\ saveLoop \in {"close", "closeFailed"}
    /\ tmpPath' = IF ok \/ flushed THEN tmpPath ELSE PartFile
    /\ saveLoop' = IF saveLoop = "closeFailed" THEN "fatal" ELSE "rename"
    /\ UNCHANGED <<queues, users, now, thr, History, rt, rtLog, Saver, Counted, Transfer, Rest,
                   savePath>>

\* os.Rename(tmpPath, s.SavePath)
SaveRename ==
    /\ saveLoop = "rename"
    /\ savePath' = tmpPath
    /\ tmpPath' = Nil
    /\ saveLoop' = "wait"
    /\ UNCHANGED <<queues, users, now, thr, History, rt, rtLog, Saver, Counted, Transfer, Rest>>

\* a server with a save loop, producers and workers
NextSave ==
    \/ \E t \in Threads, name \in Names : GetEnter(t, name)
    \/ \E t \in Threads : GetExit(t)
    \/ \E name \in Names, contents \in Contents : Push(name, contents)
    \/ \E name \in Names, timeout \in TimeoutParams : Pop(name, timeout)
    \/ \E ok \in BOOLEAN : SaveCreate(ok)
    \/ \E ok \in BOOLEAN : SaveSerialize(ok)
    \/ \E ok \in BOOLEAN, flushed \in BOOLEAN : SaveClose(ok, flushed)
    \/ SaveRename

SpecSave == Init /\ [][NextSave]_vars

----------------------------------------------------------------------------
(* The RateTracker on its own: AddAt and CountAt with times the caller     *)
(* chooses, forwards and backwards.                                        *)

RateTimes == 0..MaxRateTime

\* the first case of truncateAndShift: the window does not overlap the old one
ResetsAt(r, curTime) ==
    \/ curTime < r.firstBinTime
    \/ curTime >= r.firstBinTime + Len(r.bins) - 1 + Len(r.bins)

Logged(r, curTime, n) ==
    IF ResetsAt(r, curTime) THEN <<<<curTime, n>>>> ELSE Append(rtLog, <<curTime, n>>)

RateAdd(curTime, n) ==
    /\ Len(rtLog) < MaxRateCalls
    /\ rt' = RateTracker_AddAt(rt, curTime, n)
    /\ rtLog' = Logged(rt, curTime, n)
    /\ UNCHANGED <<queues, users, now, thr, History, Saver, Counted, Extra>>

\* CountAt shifts the window too; what it returns is looked at in the properties
RateCount(curTime, t) ==
    /\ Len(rtLog) < MaxRateCalls
    /\ rt' = RateTracker_CountAt(rt, curTime, t).rateTracker
    /\ rtLog' = Logged(rt, curTime, 0)
    /\ UNCHANGED <<queues, users, now, thr, History, Saver, Counted, Extra>>

NextRate ==
    \/ \E curTime \in RateTimes, n \in 1..2 : RateAdd(curTime, n)
    \/ \E curTime \in RateTimes, t \in 1..RateHistory : RateCount(curTime, t)

SpecRate == Init /\ [][NextRate]_vars

----------------------------------------------------------------------------
(* Properties. A property about what a method returns is stated over every *)
(* reachable state: the method is applied to the QueueState that Get would *)
(* hand out there, for every value of its parameters.                      *)

\* the QueueState that QueueStateMux.Get(name, f) passes to f
QueueOf(name) ==
    IF name \in DOMAIN queues THEN queues[name] ELSE NewQueueState(DefaultTimeout)

\* a delivery call: Pop (n = 0) or PopBatch(n), with its timeout parameter
PopCalls == [n : 0..MaxBatch, timeout : TimeoutParams]

\* the tasks a delivery call hands out, in order, and the QueueState it leaves
Deliver(q, call, clock) ==
    IF call.n = 0
    THEN LET r == QueueState_Pop(q, call.timeout, clock) IN [tasks |-> r.task, qs |-> r.qs]
    ELSE LET r == QueueState_PopBatch(q, call.n, call.timeout, clock)
         IN [tasks |-> r.tasks, qs |-> r.qs]

TimeoutOf(timeout) == IF timeout = Nil THEN DefaultTimeout ELSE timeout[1]

(* C1: however Pop and PopBatch calls on one context interleave, no task   *)
(* is handed to two calls. Of two calls that follow each other, the        *)
(* second gets none of the tasks of the first; one call hands out no task  *)
(* twice; a pending task is not a delivered (running) task; and a task     *)
(* that was delivered before is handed out again only when the expiration *)
(* its last delivery gave it is not later than now.                        *)
NoDoubleDelivery ==
    \A name \in Names : \A c1 \in PopCalls, c2 \in PopCalls :
        LET q == QueueOf(name)
            first == Deliver(q, c1, now)
            second == Deliver(first.qs, c2, now)
        IN /\ \A i \in 1..Len(first.tasks), j \in 1..Len(first.tasks) :
                  i # j => first.tasks[i].ID # first.tasks[j].ID
           /\ DequeIds(first.tasks) \cap DequeIds(second.tasks) = {}
           /\ DequeIds(q.pending.deque) \cap DequeIds(q.running.deque) = {}
           /\ \A i \in 1..Len(first.tasks) : \A k \in 1..Len(q.running.deque) :
                  q.running.deque[k].ID = first.tasks[i].ID
                      => q.running.deque[k].expiration <= now

\* two requests are inside Get on one context, its only task is out with a
\* worker and has not timed out, and a Pop comes back empty
WitnessNoDoubleDelivery ==
    \E name \in DOMAIN queues :
        /\ \A t \in Threads : thr[t] = [pc |-> "in", name |-> name]
        /\ PendingQueue_Len(queues[name].pending) = 0
        /\ RunningQueue_Len(queues[name].running) = 1
        /\ queues[name].running.deque[1].expiration > now
        /\ QueueState_Pop(queues[name], Nil, now).task = Nil

(* C2: on a quiescent queue (pushes and pops, no task times out) the i-th  *)
(* Pop that returns a task returns the i-th pushed task. With k tasks      *)
(* popped so far, Pop returns the task of push k + 1, or nothing when      *)
(* fewer than k + 1 tasks were pushed.                                     *)
FifoOrder ==
    \A name \in Names : \A timeout \in TimeoutParams :
        LET q == QueueOf(name)
            k == RunningQueue_Len(q.running)
            r == QueueState_Pop(q, timeout, now)
        IN IF k < Len(pushLog[name])
           THEN r.task # Nil /\ r.task[1].ID = pushLog[name][k + 1]
           ELSE r.task = Nil

\* two tasks were pushed, the first has been popped and the second is next
WitnessFifoOrder ==
    \E name \in DOMAIN queues :
        /\ Len(pushLog[name]) = 2
        /\ RunningQueue_Len(queues[name].running) = 1
        /\ queues[name].running.deque[1].ID = pushLog[name][1]
        /\ PendingQueue_Len(queues[name].pending) = 1

(* C3: pending tasks are delivered first. While pending is not empty Pop   *)
(* returns the head of pending, and PopBatch fills the batch from pending  *)
(* in order; a task taken from running (an expired one) appears in a       *)
(* batch only behind all the pending tasks.                                *)
PendingFirst ==
    \A name \in Names : \A c \in PopCalls :
        LET q == QueueOf(name)
            np == PendingQueue_Len(q.pending)
            want == IF c.n = 0 THEN 1 ELSE c.n
            r == Deliver(q, c, now)
        IN /\ Len(r.tasks) >= MinInt(want, np)
           /\ \A i \in 1..Len(r.tasks) :
                  IF i <= np
                  THEN r.tasks[i].ID = q.pending.deque[i].ID
                  ELSE /\ r.tasks[i].ID \in q.running.idToTask
                       /\ PendingQueue_Len(r.qs.pending) = 0

\* a task waits in pending while the head of running has timed out
WitnessPendingFirst ==
    \E name \in DOMAIN queues :
        /\ PendingQueue_Len(queues[name].pending) >= 1
        /\ RunningQueue_Len(queues[name].running) >= 1
        /\ queues[name].running.deque[1].expiration <= now
        /\ queues[name].running.deque[1].expiration # ZeroTime

(* C4: timeout-based redelivery. Pop and PopBatch never hand out a running *)
(* task whose expiration is later than now; and when pending is empty and  *)
(* some running task has expiration <= now, Pop returns such a task, one   *)
(* with the earliest expiration, and gives it the expiration now + timeout.*)
TimeoutRedelivery ==
    \A name \in Names :
        LET q == QueueOf(name)
            d == q.running.deque
            expired == {i \in 1..Len(d) : d[i].expiration <= now}
        IN /\ \A c \in PopCalls :
                  LET r == Deliver(q, c, now) IN
                  \A i \in 1..Len(r.tasks) : \A k \in 1..Len(d) :
                      d[k].ID = r.tasks[i].ID => d[k].expiration <= now
           /\ \A timeout \in TimeoutParams :
                  (PendingQueue_Len(q.pending) = 0 /\ expired # {}) =>
                      LET r == QueueState_Pop(q, timeout, now)
                          after == r.qs.running.deque
                      IN /\ r.task # Nil
                         /\ \E k \in expired :
                                /\ d[k].ID = r.task[1].ID
                                /\ \A m \in 1..Len(d) : d[k].expiration <= d[m].expiration
                         /\ \E k \in 1..Len(after) :
                                /\ after[k].ID = r.task[1].ID
                                /\ after[k].expiration = now + TimeoutOf(timeout)

\* pending is empty, one running task has timed out and another has not
WitnessTimeoutRedelivery ==
    \E name \in DOMAIN queues :
        /\ PendingQueue_Len(queues[name].pending) = 0
        /\ RunningQueue_Len(queues[name].running) = 2
        /\ queues[name].running.deque[1].expiration <= now
        /\ queues[name].running.deque[1].expiration # ZeroTime
        /\ queues[name].running.deque[2].expiration > now

(* C5: the ids returned by the pushes of one context differ pairwise, over *)
(* any sequence of operations, Clear and a snapshot round trip included.   *)
UniqueIds ==
    \A name \in Names :
        \A i \in 1..Len(pushLog[name]), j \in 1..Len(pushLog[name]) :
            i # j => pushLog[name][i] # pushLog[name][j]

(* C6: after a Clear on a context, Completed(id) and Keepalive(id) return  *)
(* false for every id issued before the Clear, whatever pushes and pops    *)
(* followed.                                                               *)
StaleIdsRejected ==
    \A name \in Names : \A id \in staleIds[name] :
        /\ ~QueueState_Completed(QueueOf(name), id, now).res
        /\ \A timeout \in TimeoutParams :
               ~QueueState_Keepalive(QueueOf(name), id, timeout, now).res

(* C7: conservation. The Pending, Running and Expired counts that Counts   *)
(* reports add up to the tasks pushed minus the tasks completed minus the  *)
(* tasks removed by Clear; the history variable net changes in Push,       *)
(* Completed and Clear only, so no other operation changes the total.      *)
Conservation ==
    \A name \in Names : \A rateSeconds \in RateWindows :
        LET c == QueueState_Counts(QueueOf(name), rateSeconds, now).counts
        IN /\ c.Pending + c.Running + c.Expired = net[name]
           /\ c.Pending >= 0 /\ c.Running >= 0 /\ c.Expired >= 0

\* one task was completed and the other, still running, has timed out
WitnessConservation ==
    \E name \in DOMAIN queues :
        /\ doneIds[name] # {}
        /\ net[name] = 1
        /\ QueueState_Counts(queues[name], 0, now).counts.Expired = 1
        /\ queues[name].running.deque[1].expiration # ZeroTime

(* C8: idempotent completion. Once Completed(id) has returned true, every  *)
(* later Completed(id) returns false; and a Completed call adds one to     *)
(* completionCounter when it returns true and nothing when it returns      *)
(* false.                                                                  *)
CompletedOnce ==
    \A name \in Names : \A id \in IdSpace :
        LET q == QueueOf(name)
            r == QueueState_Completed(q, id, now)
        IN /\ id \in doneIds[name] => ~r.res
           /\ r.qs.completionCounter = q.completionCounter + (IF r.res THEN 1 ELSE 0)

(* C9: the running deque is non-decreasing in expiration from head to      *)
(* tail after any sequence of Push, Pop, PopBatch, Keepalive, Completed,   *)
(* Expire(id), ExpireAll, QueueExpired, Clear and snapshot restore.        *)
RunningSorted ==
    \A name \in DOMAIN queues :
        LET d == queues[name].running.deque IN
        \A i \in 1..Len(d), j \in 1..Len(d) :
            i < j => d[i].expiration <= d[j].expiration

(* C10: the running deque and the id-to-task map hold the same tasks: the  *)
(* ids of the deque are the keys of the map, and there are as many tasks   *)
(* in the deque as keys in the map.                                        *)
MapMatchesDeque ==
    \A name \in DOMAIN queues :
        LET r == queues[name].running IN
        /\ r.idToTask = DequeIds(r.deque)
        /\ Cardinality(r.idToTask) = TaskDeque_Len(r.deque)

\* one running task was completed and another is still running
WitnessMapMatchesDeque ==
    \E name \in DOMAIN queues :
        /\ doneIds[name] # {}
        /\ RunningQueue_Len(queues[name].running) = 1
        /\ queues[name].running.deque[1].ID \notin doneIds[name]
        /\ queues[name].running.idToTask = {queues[name].running.deque[1].ID}

(* C11: a task is in pending, in running, or removed, and never in two of  *)
(* these: no id is linked twice into a deque and none is linked into both  *)
(* deques; and Pop, PopBatch and QueueExpired move a task in one step, so  *)
(* the tasks of the two deques together are the same before and after,     *)
(* each of them in exactly one deque.                                      *)
ExclusiveOwnership ==
    \A name \in Names :
        LET q == QueueOf(name)
            Exclusive(x) ==
                /\ DequeIds(x.pending.deque) \cap DequeIds(x.running.deque) = {}
                /\ Cardinality(DequeIds(x.pending.deque)) = Len(x.pending.deque)
                /\ Cardinality(DequeIds(x.running.deque)) = Len(x.running.deque)
            All(x) == DequeIds(x.pending.deque) \cup DequeIds(x.running.deque)
            moved == QueueState_QueueExpired(q, now)
        IN /\ Exclusive(q)
           /\ Exclusive(moved.qs) /\ All(moved.qs) = All(q)
           /\ \A c \in PopCalls :
                  LET r == Deliver(q, c, now) IN
                  /\ Exclusive(r.qs) /\ All(r.qs) = All(q)
                  /\ DequeIds(r.tasks) \subseteq DequeIds(r.qs.running.deque)

\* one task is pending and another is running and has timed out, so that
\* PopBatch and QueueExpired both have a task to move
WitnessExclusiveOwnership ==
    \E name \in DOMAIN queues :
        /\ PendingQueue_Len(queues[name].pending) = 1
        /\ RunningQueue_Len(queues[name].running) = 1
        /\ queues[name].running.deque[1].expiration <= now
        /\ QueueState_QueueExpired(queues[name], now).n = 1
        /\ Len(QueueState_PopBatch(queues[name], MaxBatch, Nil, now).tasks) = 2

(* C16: when a Get(name, f) call returns, the context is deleted exactly   *)
(* when no other Get on that name is in flight and the queue is cleared    *)
(* (pending empty, running empty, completionCounter 0); and a context is   *)
(* deleted by nothing but a returning Get.                                 *)
GcExactly ==
    [][(\A t \in Threads :
           (thr[t].pc = "in" /\ thr'[t].pc = "idle") =>
               LET ctx == thr[t].name
                   q == queues[ctx]
                   alone == \A u \in Threads \ {t} :
                                thr[u] # [pc |-> "in", name |-> ctx]
               IN (ctx \notin DOMAIN queues') <=>
                      /\ alone
                      /\ Len(q.pending.deque) = 0
                      /\ Len(q.running.deque) = 0
                      /\ q.completionCounter = 0)
       /\ (\A name \in DOMAIN queues :
              name \notin DOMAIN queues' =>
                  \E t \in Threads : /\ thr[t] = [pc |-> "in", name |-> name]
                                     /\ thr'[t].pc = "idle")]_vars

\* a context that had tasks was cleared and is gone from the multiplexer
WitnessGcExactly ==
    \E name \in Names :
        /\ staleIds[name] # {}
        /\ name \notin DOMAIN queues
        /\ \A t \in Threads : thr[t].pc = "idle"

(* C19: Completed(id) and Keepalive(id) for an id that is not in the       *)
(* running queue return false and change nothing of the QueueState.        *)
UnknownIdNoEffect ==
    \A name \in Names : \A id \in IdSpace :
        LET q == QueueOf(name) IN
        id \notin DequeIds(q.running.deque) =>
            /\ LET r == QueueState_Completed(q, id, now)
               IN ~r.res /\ r.qs = q
            /\ \A timeout \in TimeoutParams :
                   LET r == QueueState_Keepalive(q, id, timeout, now)
                   IN ~r.res /\ r.qs = q

\* ids of all four kinds at once: "0" was completed, "1" is still pending,
\* and the last id of the id space was never issued; the counter is not zero
WitnessUnknownIdNoEffect ==
    \E name \in DOMAIN queues :
        /\ doneIds[name] # {}
        /\ queues[name].completionCounter = 1
        /\ PendingQueue_Len(queues[name].pending) = 1
        /\ RunningQueue_Len(queues[name].running) = 0

(* C20: a running task can be completed whether or not it has expired:     *)
(* Completed(id) returns true for every task of the running queue, the     *)
(* task is then in neither queue, and no Pop or PopBatch returns it.       *)
CompleteWhileRunning ==
    \A name \in Names :
        LET q == QueueOf(name) IN
        \A id \in DequeIds(q.running.deque) :
            LET r == QueueState_Completed(q, id, now) IN
            /\ r.res
            /\ id \notin DequeIds(r.qs.running.deque)
            /\ id \notin r.qs.running.idToTask
            /\ id \notin DequeIds(r.qs.pending.deque)
            /\ \A c \in PopCalls : id \notin DequeIds(Deliver(r.qs, c, now).tasks)

\* a running task whose timeout has passed
WitnessCompleteWhileRunning ==
    \E name \in DOMAIN queues :
        /\ RunningQueue_Len(queues[name].running) >= 1
        /\ queues[name].running.deque[1].expiration <= now
        /\ queues[name].running.deque[1].expiration # ZeroTime

\* the sum of the n of the logged calls whose time is in [curTime - t + 1, curTime]
RECURSIVE WindowSum(_, _, _)
WindowSum(log, curTime, t) ==
    IF log = <<>> THEN 0
    ELSE (IF log[1][1] >= curTime - t + 1 /\ log[1][1] <= curTime THEN log[1][2] ELSE 0)
         + WindowSum(Tail(log), curTime, t)

\* the times of the logged calls never decrease
NonDecreasing(log) == \A i \in 1..Len(log), j \in 1..Len(log) : i < j => log[i][1] <= log[j][1]

LastTime(log) == IF log = <<>> THEN 0 ELSE log[Len(log)][1]

(* C17, as the claim states it: for all t <= N and any sequence of AddAt   *)
(* calls, times that move backwards included, CountAt(now, t) is the sum   *)
(* of the n whose time is in [now - t + 1, now]; a call that resets the    *)
(* tracker forgets what was added before it.                               *)
RateCountAnyOrder ==
    \A curTime \in RateTimes : \A t \in 1..RateTracker_HistorySize(rt) :
        RateTracker_CountAt(rt, curTime, t).count =
            IF ResetsAt(rt, curTime) THEN 0 ELSE WindowSum(rtLog, curTime, t)

(* C17, amended: when the times of the AddAt and CountAt calls never       *)
(* decrease, CountAt(now, t) is, for all t <= N, the sum of the n whose    *)
(* time is in [now - t + 1, now].                                          *)
RateCountForward ==
    NonDecreasing(rtLog) =>
        \A curTime \in RateTimes : \A t \in 1..RateTracker_HistorySize(rt) :
            curTime >= LastTime(rtLog) =>
                RateTracker_CountAt(rt, curTime, t).count =
                    IF ResetsAt(rt, curTime) THEN 0 ELSE WindowSum(rtLog, curTime, t)

\* three adds at rising times, the first of which has left the shortest
\* window but not the longest
WitnessRateCountForward ==
    /\ Len(rtLog) = 3
    /\ NonDecreasing(rtLog)
    /\ \A i \in 1..3 : rtLog[i][2] > 0
    /\ rtLog[1][1] < rtLog[3][1]
    /\ RateTracker_CountAt(rt, rtLog[3][1], 1).count
           < RateTracker_CountAt(rt, rtLog[3][1], RateTracker_HistorySize(rt)).count

SnapshotIsolation ==
    saveLock =>
        /\ \A t \in Threads : thr[t].pc = "idle"
        /\ \A name \in DOMAIN users : users[name] = 0
        /\ DOMAIN saveStates \subseteq DOMAIN queues
        /\ \A name \in DOMAIN saveStates :
               saveStates[name] = [Name |-> name, Encoded |-> QueueState_Encode(queues[name])]

\* Serialize has encoded two contexts that hold tasks, one of them running
WitnessSnapshotIsolation ==
    /\ saveLock
    /\ DOMAIN saveStates = Contexts
    /\ \E name \in Contexts : Len(queues[name].running.deque) > 0
    /\ \E name \in Contexts : Len(queues[name].pending.deque) > 0

\* the ids of the tasks that context name holds, pending or running
LiveIds(name) ==
    DequeIds(QueueOf(name).pending.deque) \cup DequeIds(QueueOf(name).running.deque)

\* C12: the numAttempts of every task the queue holds is the number of times
\* Pop or PopBatch has returned that task: 0 before its first delivery, 1
\* after it, one more after each later delivery, never less than before.
AttemptsCountDeliveries ==
    \A name \in Names : \A id \in LiveIds(name) :
        numAttempts[name][id] = delivered[name][id]

\* C13: a Keepalive step and a QueueExpired step leave the numAttempts of
\* every task as it was, although Keepalive puts the task back through
\* StartedTask as Pop does.
AttemptsKeptByKeepalive ==
    [][numAttempts' # numAttempts =>
           /\ ~(\E name \in Names, id \in IdSpace, timeout \in TimeoutParams :
                   KeepaliveCounted(name, id, timeout))
           /\ ~(\E name \in Names : QueueExpired(name))]_vars

\* a task that was delivered once, renewed by Keepalive, and moved back to
\* pending by QueueExpired when it had timed out: it still has one attempt
WitnessAttemptsKeptByKeepalive ==
    \E name \in Names : \E id \in DequeIds(QueueOf(name).pending.deque) :
        /\ id \in kept[name]
        /\ delivered[name][id] = 1
        /\ numAttempts[name][id] = 1

\* C15: the state that Serialize and then Deserialize give answers every
\* read-only operation as the state saved does, and every later operation
\* does the same to it: same tasks popped in the same order, same id for the
\* next push, same results of Completed and Keepalive, and the same attempt
\* counts of the tasks delivered next.
SnapshotRoundTrip ==
    \A name \in DOMAIN queues :
        LET q == queues[name]
            s == DeserializeQueueStateMux(SerializeMux).queues[name]
            a == numAttempts[name]
            b == DecodeTaskDeque_numAttempts(a)
        IN /\ \A rateSeconds \in RateWindows :
                  QueueState_Counts(s, rateSeconds, now) = QueueState_Counts(q, rateSeconds, now)
           /\ QueueState_Peek(s, now) = QueueState_Peek(q, now)
           /\ \A contents \in Contents :
                  QueueState_Push(s, contents) = QueueState_Push(q, contents)
           /\ \A id \in IdSpace :
                  /\ QueueState_Completed(s, id, now) = QueueState_Completed(q, id, now)
                  /\ \A timeout \in TimeoutParams :
                         QueueState_Keepalive(s, id, timeout, now)
                             = QueueState_Keepalive(q, id, timeout, now)
           /\ \A c \in PopCalls :
                  /\ Deliver(s, c, now) = Deliver(q, c, now)
                  /\ \A id \in DequeIds(Deliver(q, c, now).tasks) :
                         Started(b, Deliver(s, c, now).tasks)[id]
                             = Started(a, Deliver(q, c, now).tasks)[id]

\* C15 without the attempt counts
SnapshotRoundTripQueues ==
    \A name \in DOMAIN queues :
        DeserializeQueueStateMux(SerializeMux).queues[name] = queues[name]

\* C21: Pop has three outcomes and they are exact. It returns a task exactly
\* when pending is not empty or the head of running has expired; it returns
\* no task and no time exactly when nothing is pending or running; in the
\* remaining case it returns no task and the smallest expiration among all
\* the running tasks.
PopOutcomes ==
    \A name \in Names : \A timeout \in TimeoutParams :
        LET q == QueueOf(name)
            d == q.running.deque
            P == PendingQueue_Len(q.pending)
            r == QueueState_Pop(q, timeout, now)
        IN /\ r.task # Nil <=> (P > 0 \/ (Len(d) > 0 /\ d[1].expiration <= now))
           /\ (r.task = Nil /\ r.nextTry = Nil) <=> (P = 0 /\ Len(d) = 0)
           /\ r.task # Nil => r.nextTry = Nil
           /\ (r.task = Nil /\ Len(d) > 0) =>
                  /\ r.nextTry # Nil
                  /\ \E k \in 1..Len(d) : r.nextTry[1] = d[k].expiration
                  /\ \A k \in 1..Len(d) : r.nextTry[1] <= d[k].expiration
                  /\ r.qs = q

\* nothing is pending and two tasks with different expirations are running,
\* none of them timed out: Pop answers with the time to try again
WitnessPopOutcomes ==
    \E name \in Names :
        /\ name \in DOMAIN queues
        /\ PendingQueue_Len(queues[name].pending) = 0
        /\ Len(queues[name].running.deque) = 2
        /\ queues[name].running.deque[1].expiration > now
        /\ queues[name].running.deque[1].expiration
               # queues[name].running.deque[2].expiration

\* C22: Peek shows what Pop would return next. If Peek returns a current
\* task, a Pop at the same instant returns the task with that id and those
\* contents, and if Pop would return a task, Peek shows it; if Peek returns no
\* current task, it returns nothing for an empty running deque and else a copy
\* of the running task that expires first, with that expiration. Peek only
\* reads: the copy it returns is no task of the queue.
PeekShowsNextPop ==
    \A name \in Names : \A timeout \in TimeoutParams :
        LET q == QueueOf(name)
            d == q.running.deque
            pk == QueueState_Peek(q, now)
            pop == QueueState_Pop(q, timeout, now)
        IN /\ pk.task # Nil <=> pop.task # Nil
           /\ pk.task # Nil =>
                  /\ pk.task[1].ID = pop.task[1].ID
                  /\ pk.task[1].Contents = pop.task[1].Contents
                  /\ pk.task[1].expiration = ZeroTime
                  /\ pk.next = Nil /\ pk.nextTry = Nil
           /\ (pk.task = Nil /\ Len(d) = 0) => (pk.next = Nil /\ pk.nextTry = Nil)
           /\ (pk.task = Nil /\ Len(d) > 0) =>
                  /\ pk.next # Nil /\ pk.nextTry # Nil
                  /\ pk.nextTry = pop.nextTry
                  /\ \E k \in 1..Len(d) :
                         /\ d[k].ID = pk.next[1].ID
                         /\ d[k].Contents = pk.next[1].Contents
                         /\ d[k].expiration = pk.nextTry[1]
                         /\ \A m \in 1..Len(d) : d[k].expiration <= d[m].expiration

\* two running tasks, the head timed out and the other not: Peek shows the
\* head as current task
WitnessPeekShowsNextPop ==
    \E name \in Names :
        /\ name \in DOMAIN queues
        /\ PendingQueue_Len(queues[name].pending) = 0
        /\ Len(queues[name].running.deque) = 2
        /\ queues[name].running.deque[1].expiration <= now
        /\ queues[name].running.deque[2].expiration > now
        /\ QueueState_Peek(queues[name], now).task # Nil

\* C23: the transfer loses no task. Whatever is interrupted and whichever
\* request fails, every task given to the source is still held by the source
\* (pending or running, not completed) or is held by the destination; and
\* when main goes on to CompletedBatch, the destination has taken the batch.
TransferLosesNoTask ==
    /\ \A contents \in srcLog : contents \in Held(source) \cup Held(dest)
    /\ xfer.pc = "complete" =>
           \A i \in 1..Len(xfer.tasks) : xfer.tasks[i].Contents \in Held(dest)

\* C24: the snapshot is replaced atomically. The file at SavePath is never
\* anything but a whole snapshot, and SaveLoop renames the temporary file
\* only when the snapshot was written to it and the file closed with
\* success; after a failed write or Close the loop does not go on.
AtomicSnapshotReplace ==
    /\ savePath # Nil => savePath.whole
    /\ saveLoop = "rename" => (tmpPath # Nil /\ tmpPath.whole)

\* the tasks of deque d whose ids are not in ids, in the order of d
Without(d, ids) == SelectSeq(d, LAMBDA t : t.ID \notin ids)

\* C25: PopBatch(n, timeout) with n >= 1 returns min(n, P + E) tasks, P the
\* number of pending tasks and E the number of running tasks that have
\* timed out: the first min(n, P) pending tasks in their order, then timed-out
\* running tasks in the order of the running deque. Afterwards each returned
\* task is running with expiration now + timeout, and no other task has
\* moved or changed.
PopBatchExact ==
    \A name \in Names : \A n \in 1..MaxBatch, timeout \in TimeoutParams :
        LET q == QueueOf(name)
            pd == q.pending.deque
            d == q.running.deque
            P == Len(pd)
            E == Cardinality({i \in 1..Len(d) : d[i].expiration <= now})
            fromP == MinInt(n, P)
            r == QueueState_PopBatch(q, n, timeout, now)
            ids == DequeIds(r.tasks)
            after == r.qs.running.deque
        IN /\ Len(r.tasks) = MinInt(n, P + E)
           /\ \A i \in 1..Len(r.tasks) :
                  IF i <= fromP
                  THEN /\ r.tasks[i].ID = pd[i].ID
                       /\ r.tasks[i].Contents = pd[i].Contents
                  ELSE /\ r.tasks[i].ID = d[i - fromP].ID
                       /\ r.tasks[i].Contents = d[i - fromP].Contents
                       /\ d[i - fromP].expiration <= now
           /\ \A id \in ids :
                  /\ id \in r.qs.running.idToTask
                  /\ \E k \in 1..Len(after) :
                         /\ after[k].ID = id
                         /\ after[k].expiration = now + TimeoutOf(timeout)
           /\ r.qs.pending.deque = SubSeq(pd, fromP + 1, P)
           /\ r.qs.pending.curID = q.pending.curID
           /\ Without(after, ids) = Without(d, ids)
           /\ Len(after) = Len(Without(d, ids)) + Len(r.tasks)
           /\ r.qs.completionCounter = q.completionCounter

\* one task is pending and one running task has timed out: PopBatch(2) takes both
WitnessPopBatchExact ==
    \E name \in Names :
        /\ name \in DOMAIN queues
        /\ Len(queues[name].pending.deque) = 1
        /\ Len(queues[name].running.deque) = 1
        /\ queues[name].running.deque[1].expiration <= now
        /\ Len(QueueState_PopBatch(queues[name], MaxBatch, Nil, now).tasks) = 2

\* C26: when PopBatch(n) returns fewer than n tasks, its second value is the
\* time at which the next running task expires, and it is nil only if no
\* task was running before the call.
PopBatchNextTry ==
    \A name \in Names : \A n \in 1..MaxBatch, timeout \in TimeoutParams :
        LET q == QueueOf(name)
            d == q.running.deque
            r == QueueState_PopBatch(q, n, timeout, now)
            rest == Without(d, DequeIds(r.tasks))
        IN Len(r.tasks) < n =>
               /\ r.nextTry = Nil => Len(d) = 0
               /\ r.nextTry # Nil =>
                      /\ rest # <<>>
                      /\ \A k \in 1..Len(rest) : r.nextTry[1] <= rest[k].expiration
                      /\ \E k \in 1..Len(rest) : r.nextTry[1] = rest[k].expiration

\* what PopBatch does return with fewer than n tasks: the earliest expiration
\* among the running tasks it did not take, and nil when it took them all
PopBatchNextTryOfRest ==
    \A name \in Names : \A n \in 1..MaxBatch, timeout \in TimeoutParams :
        LET q == QueueOf(name)
            d == q.running.deque
            r == QueueState_PopBatch(q, n, timeout, now)
            rest == Without(d, DequeIds(r.tasks))
        IN Len(r.tasks) < n =>
               /\ r.nextTry = Nil <=> rest = <<>>
               /\ r.nextTry # Nil =>
                      /\ \A k \in 1..Len(rest) : r.nextTry[1] <= rest[k].expiration
                      /\ \E k \in 1..Len(rest) : r.nextTry[1] = rest[k].expiration

\* C27: Keepalive(id, timeout) on a running task, timed out or not, returns
\* true and gives the task the expiration now + timeout (the default when
\* none is given); the task stays running, once, the deque stays in ascending
\* order of expiration and nothing else changes; and no Pop or PopBatch hands
\* the task out again before the new expiration.
KeepaliveRenews ==
    \A name \in Names : \A timeout \in TimeoutParams :
        LET q == QueueOf(name)
            d == q.running.deque
        IN \A id \in q.running.idToTask :
               LET r == QueueState_Keepalive(q, id, timeout, now)
                   after == r.qs.running.deque
                   expiry == now + TimeoutOf(timeout)
               IN /\ r.res
                  /\ ~r.panic
                  /\ r.qs.running.idToTask = q.running.idToTask
                  /\ Len(after) = Len(d)
                  /\ Cardinality({k \in 1..Len(after) : after[k].ID = id}) = 1
                  /\ \A k \in 1..Len(after) :
                         after[k].ID = id => after[k].expiration = expiry
                  /\ \A i \in 1..Len(after), j \in 1..Len(after) :
                         i < j => after[i].expiration <= after[j].expiration
                  /\ Without(after, {id}) = Without(d, {id})
                  /\ r.qs.pending = q.pending
                  /\ r.qs.completionCounter = q.completionCounter
                  /\ \A c \in PopCalls : \A clock \in now..(expiry - 1) :
                         id \notin DequeIds(Deliver(r.qs, c, clock).tasks)

\* two running tasks: a Keepalive with the longer timeout moves the head
\* behind the other task
WitnessKeepaliveRenews ==
    \E name \in Names :
        /\ name \in DOMAIN queues
        /\ Len(queues[name].running.deque) = 2
        /\ LET d == queues[name].running.deque
               r == QueueState_Keepalive(queues[name], d[1].ID, <<DefaultTimeout + 1>>, now)
           IN /\ r.res
              /\ r.qs.running.deque[2].ID = d[1].ID
              /\ d[1].expiration <= now

\* the ids that k Pop calls in a row return, at one instant
RECURSIVE PopIds(_, _, _, _)
PopIds(q, k, timeout, clock) ==
    IF k = 0 THEN <<>>
    ELSE LET r == QueueState_Pop(q, timeout, clock) IN
         IF r.task = Nil THEN <<>>
         ELSE <<r.task[1].ID>> \o PopIds(r.qs, k - 1, timeout, clock)

\* C28: ExpireAll gives every running task the zero time as expiration and
\* returns the number of running tasks. No task moves: pending, the order of
\* the running deque and the id map are as before. Counts then reports no
\* task as running and all the former running tasks as expired, and Pop
\* calls return the pending tasks and then these tasks in the order of the deque.
ExpireAllExpiresAll ==
    \A name \in Names :
        LET q == QueueOf(name)
            pd == q.pending.deque
            d == q.running.deque
            r == QueueState_ExpireAll(q)
            after == r.qs.running.deque
            counts == QueueState_Counts(r.qs, 0, now).counts
        IN /\ r.n = Len(d)
           /\ after = [i \in 1..Len(d) |-> [d[i] EXCEPT !.expiration = ZeroTime]]
           /\ r.qs.running.idToTask = q.running.idToTask
           /\ r.qs.pending = q.pending
           /\ r.qs.completionCounter = q.completionCounter
           /\ counts.Running = 0
           /\ counts.Expired = Len(d)
           /\ counts.Pending = Len(pd)
           /\ \A timeout \in TimeoutParams :
                  PopIds(r.qs, Len(pd) + Len(d), timeout, now)
                      = [i \in 1..Len(pd) |-> pd[i].ID] \o [i \in 1..Len(d) |-> d[i].ID]

\* ExpireAll has been called with two tasks running
WitnessExpireAllExpiresAll ==
    \E name \in Names :
        /\ name \in DOMAIN queues
        /\ Len(queues[name].running.deque) = 2
        /\ \A i \in 1..2 : queues[name].running.deque[i].expiration = ZeroTime


\* C29: QueueExpired moves exactly the running tasks whose expiration is not
\* after now to the tail of pending, in the order of the running deque and
\* behind the tasks already pending, and returns their number; the other
\* running tasks stay where they are. A moved task keeps its id and is not in
\* the id map any more: Completed with its id returns false and leaves the
\* task pending.
QueueExpiredMovesExpired ==
    \A name \in Names :
        LET q == QueueOf(name)
            d == q.running.deque
            moved == SelectSeq(d, LAMBDA t : t.expiration <= now)
            stay == SelectSeq(d, LAMBDA t : t.expiration > now)
            r == QueueState_QueueExpired(q, now)
        IN /\ r.n = Len(moved)
           /\ r.qs.pending.deque = q.pending.deque \o moved
           /\ r.qs.running.deque = stay
           /\ r.qs.running.idToTask = DequeIds(stay)
           /\ r.qs.completionCounter = q.completionCounter
           /\ \A i \in 1..Len(moved) :
                  LET c == QueueState_Completed(r.qs, moved[i].ID, now) IN
                  /\ ~c.res
                  /\ c.qs = r.qs

\* QueueExpired has put an expired task behind a task that was pushed after it
WitnessQueueExpiredMovesExpired ==
    \E name \in Names :
        /\ name \in DOMAIN queues
        /\ Len(pushLog[name]) = 2
        /\ Len(queues[name].pending.deque) = 2
        /\ queues[name].pending.deque[1].ID = pushLog[name][2]
        /\ queues[name].pending.deque[2].ID = pushLog[name][1]
        /\ queues[name].running.deque = <<>>


\* C30: in every reachable state Counts is exact. Expired is the number of
\* running tasks whose expiration is not after now, Running the number of
\* running tasks whose expiration is after now, and Pending the length of
\* pending, whatever rate window is asked for.
CountsExact ==
    \A name \in Names : \A rateSeconds \in RateWindows :
        LET q == QueueOf(name)
            d == q.running.deque
            counts == QueueState_Counts(q, rateSeconds, now).counts
        IN /\ counts.Expired = Cardinality({i \in 1..Len(d) : d[i].expiration <= now})
           /\ counts.Running = Cardinality({i \in 1..Len(d) : d[i].expiration > now})
           /\ counts.Pending = Len(q.pending.deque)

\* the walk of NumExpired has a task that timed out to count and a live one to stop at
WitnessCountsExact ==
    \E name \in Names :
        /\ name \in DOMAIN queues
        /\ LET d == queues[name].running.deque IN
           /\ Len(d) = 2
           /\ d[1].expiration <= now
           /\ d[2].expiration > now
           /\ d[1].expiration # ZeroTime


\* C31: Clear removes every pending and every running task, sets the
\* completion counter to 0 and zeroes every bin of the rate tracker, whose
\* firstBinTime stays. Right after it Counts reports 0 pending, running,
\* expired and completed (and no events in the rate window), Cleared is
\* true, Pop reports done and Peek returns nothing.
ClearEmpties ==
    \A name \in Names :
        LET q == QueueOf(name)
            c == QueueState_Clear(q)
        IN /\ c.pending.deque = <<>>
           /\ c.running.deque = <<>>
           /\ c.running.idToTask = {}
           /\ c.completionCounter = 0
           /\ c.rateTracker.firstBinTime = q.rateTracker.firstBinTime
           /\ c.rateTracker.bins = [i \in 1..Len(q.rateTracker.bins) |-> 0]
           /\ QueueState_Cleared(c)
           /\ \A rateSeconds \in RateWindows :
                  LET counts == QueueState_Counts(c, rateSeconds, now).counts IN
                  /\ counts.Pending = 0
                  /\ counts.Running = 0
                  /\ counts.Expired = 0
                  /\ counts.Completed = 0
                  /\ rateSeconds > 0 => counts.Rate[1][1] = 0
           /\ \A timeout \in TimeoutParams :
                  LET p == QueueState_Pop(c, timeout, now) IN
                  p.task = Nil /\ p.nextTry = Nil
           /\ QueueState_Peek(c, now).task = Nil
           /\ QueueState_Peek(c, now).nextTry = Nil

\* Clear has been called on a context with a completed task on its counter
\* and in its rate tracker
WitnessClearEmpties ==
    \E name \in Names :
        /\ name \in DOMAIN queues
        /\ doneIds[name] # {}
        /\ doneIds[name] \subseteq staleIds[name]
        /\ QueueState_Cleared(queues[name])
        /\ queues[name].rateTracker.firstBinTime # 0
        /\ \A i \in 1..Len(queues[name].rateTracker.bins) : queues[name].rateTracker.bins[i] = 0


\* the events a rate tracker holds for one epoch second
EventsAt(r, sec) ==
    IF sec >= r.firstBinTime /\ sec < r.firstBinTime + Len(r.bins)
    THEN r.bins[sec - r.firstBinTime + 1]
    ELSE 0

\* the seconds at which an event can have been recorded
EventSeconds == StartTime..(StartTime + MaxTicks)

----------------------------------------------------------------------------
(* TaskDeque as the linked list it is: Task objects with queuePrev and     *)
(* queueNext, a TaskDeque with first, last, count and bytes. The methods   *)
(* work on the objects h and the deques ds and give both back.             *)

\* the tasks that TaskDeque.Iterate visits, from task on
RECURSIVE IterateFrom(_, _, _)
IterateFrom(h, task, fuel) ==
    IF task = NilTask \/ fuel = 0 THEN <<>>
    ELSE <<task>> \o IterateFrom(h, h[task].queueNext, fuel - 1)

Linked_Iterate(h, dq) == IterateFrom(h, dq.first, MaxTasks)

Linked_Members(h, dq) == {Linked_Iterate(h, dq)[i] : i \in 1..Len(Linked_Iterate(h, dq))}

Linked_Encode(h, dq) ==
    LET seq == Linked_Iterate(h, dq) IN
    [i \in 1..Len(seq) |->
        [Contents |-> h[seq[i]].Contents, Expiration |-> h[seq[i]].expiration]]

Linked_PushLast(h, ds, d, task) ==
    LET dq == ds[d]
        counted == [dq EXCEPT !.count = @ + 1, !.bytes = @ + Len(h[task].Contents)]
    IN
    IF dq.last = NilTask
    THEN [heap |-> [h EXCEPT ![task].queuePrev = NilTask, ![task].queueNext = NilTask],
          deques |-> [ds EXCEPT ![d] = [counted EXCEPT !.first = task, !.last = task]]]
    ELSE [heap |-> [[h EXCEPT ![dq.last].queueNext = task]
                       EXCEPT ![task].queuePrev = dq.last, ![task].queueNext = NilTask],
          deques |-> [ds EXCEPT ![d] = [counted EXCEPT !.last = task]]]

Linked_PushFirst(h, ds, d, task) ==
    LET dq == ds[d]
        counted == [dq EXCEPT !.count = @ + 1, !.bytes = @ + Len(h[task].Contents)]
    IN
    IF dq.first = NilTask
    THEN [heap |-> [h EXCEPT ![task].queuePrev = NilTask, ![task].queueNext = NilTask],
          deques |-> [ds EXCEPT ![d] = [counted EXCEPT !.first = task, !.last = task]]]
    ELSE [heap |-> [[h EXCEPT ![dq.first].queuePrev = task]
                       EXCEPT ![task].queueNext = dq.first, ![task].queuePrev = NilTask],
          deques |-> [ds EXCEPT ![d] = [counted EXCEPT !.first = task]]]

\* the loop of PushByExpiration: back from prev while prev expires after task
RECURSIVE WalkBack(_, _, _, _)
WalkBack(h, prev, task, fuel) ==
    IF prev # NilTask /\ h[prev].expiration > h[task].expiration /\ fuel > 0
    THEN WalkBack(h, h[prev].queuePrev, task, fuel - 1)
    ELSE prev

\* a PushByExpiration that, between two tasks, leaves the queuePrev of the next one
Linked_PushByExpiration_NoBackLink(h, ds, d, task) ==
    LET dq == ds[d]
        prev == WalkBack(h, dq.last, task, MaxTasks)
    IN
    IF prev = NilTask THEN Linked_PushFirst(h, ds, d, task)
    ELSE IF h[prev].queueNext = NilTask THEN Linked_PushLast(h, ds, d, task)
    ELSE LET next == h[prev].queueNext IN
         [heap |-> [[h EXCEPT ![prev].queueNext = task]
                        EXCEPT ![task].queuePrev = prev, ![task].queueNext = next],
          deques |-> [ds EXCEPT ![d].bytes = @ + Len(h[task].Contents),
                                ![d].count = @ + 1]]

Linked_PushByExpiration(h, ds, d, task) ==
    LET dq == ds[d]
        prev == WalkBack(h, dq.last, task, MaxTasks)
    IN
    IF prev = NilTask THEN Linked_PushFirst(h, ds, d, task)
    ELSE IF h[prev].queueNext = NilTask THEN Linked_PushLast(h, ds, d, task)
    ELSE LET next == h[prev].queueNext IN
         [heap |-> [[[h EXCEPT ![prev].queueNext = task]
                        EXCEPT ![next].queuePrev = task]
                        EXCEPT ![task].queuePrev = prev, ![task].queueNext = next],
          deques |-> [ds EXCEPT ![d].bytes = @ + Len(h[task].Contents),
                                ![d].count = @ + 1]]

\* Remove gives the panic message too, "" if it returns
Linked_Remove(h, ds, d, task) ==
    LET dq == ds[d]
        Finish(w) ==
            LET left == w.heap[task].queueNext # NilTask \/ w.heap[task].queuePrev # NilTask IN
            [heap |-> w.heap,
             deques |-> [w.deques EXCEPT ![d].count = @ - 1,
                                         ![d].bytes = @ - Len(h[task].Contents)],
             panic |-> IF left THEN "pointer unexpectedly preserved" ELSE ""]
    IN
    IF h[task].queuePrev = NilTask
    THEN IF dq.first # task
         THEN [heap |-> h, deques |-> ds, panic |-> "task not in deque"]
         ELSE LET first == h[task].queueNext
                  h1 == [h EXCEPT ![task].queueNext = NilTask]
              IN Finish(
                 IF first # NilTask
                 THEN [heap |-> [h1 EXCEPT ![first].queuePrev = NilTask],
                       deques |-> [ds EXCEPT ![d].first = first]]
                 ELSE [heap |-> h1,
                       deques |-> [ds EXCEPT ![d].first = first, ![d].last = NilTask]])
    ELSE IF h[task].queueNext = NilTask
    THEN IF dq.last # task
         THEN [heap |-> h, deques |-> ds, panic |-> "task not in queue"]
         ELSE LET last == h[task].queuePrev
                  h1 == [h EXCEPT ![task].queuePrev = NilTask]
              IN Finish(
                 IF last # NilTask
                 THEN [heap |-> [h1 EXCEPT ![last].queueNext = NilTask],
                       deques |-> [ds EXCEPT ![d].last = last]]
                 ELSE [heap |-> h1,
                       deques |-> [ds EXCEPT ![d].last = last, ![d].first = NilTask]])
    ELSE LET p == h[task].queuePrev
             n == h[task].queueNext
         IN Finish(
            [heap |-> [[[h EXCEPT ![n].queuePrev = p]
                           EXCEPT ![p].queueNext = n]
                           EXCEPT ![task].queueNext = NilTask, ![task].queuePrev = NilTask],
             deques |-> ds])

\* DecodeTaskDeque(obj): a deque of new Task objects, which get the addresses addrs
RECURSIVE SumContents(_, _)
SumContents(obj, i) ==
    IF i > Len(obj) THEN 0 ELSE Len(obj[i].Contents) + SumContents(obj, i + 1)

Linked_DecodeTaskDeque(h, obj, addrs) ==
    LET At(t) == CHOOSE i \in 1..Len(addrs) : addrs[i] = t IN
    [heap |-> [t \in DOMAIN h |->
                  IF \E i \in 1..Len(addrs) : addrs[i] = t
                  THEN [Contents |-> obj[At(t)].Contents,
                        expiration |-> obj[At(t)].Expiration,
                        queuePrev |-> IF At(t) = 1 THEN NilTask ELSE addrs[At(t) - 1],
                        queueNext |-> IF At(t) = Len(obj) THEN NilTask ELSE addrs[At(t) + 1]]
                  ELSE h[t]],
     deque |-> [first |-> IF Len(obj) = 0 THEN NilTask ELSE addrs[1],
                last |-> IF Len(obj) = 0 THEN NilTask ELSE addrs[Len(obj)],
                count |-> Len(obj),
                bytes |-> SumContents(obj, 1)]]

\* a Task that no deque holds: new, or taken out of its deque
Detached(t) ==
    /\ heap[t].queuePrev = NilTask
    /\ heap[t].queueNext = NilTask
    /\ \A d \in Deques : deques[d].first # t

SetLinked(w) ==
    /\ heap' = w.heap
    /\ deques' = w.deques

NotLinks == <<queues, users, now, thr, History, rt, rtLog, Saver, Counted, Transfer, Files,
              Walk, Race, Restored>>

DequePushLast(d, task) ==
    /\ dequePanic = ""
    /\ Detached(task)
    /\ SetLinked(Linked_PushLast(heap, deques, d, task))
    /\ UNCHANGED <<dequePanic, strays, NotLinks>>

DequePushFirst(d, task) ==
    /\ dequePanic = ""
    /\ Detached(task)
    /\ SetLinked(Linked_PushFirst(heap, deques, d, task))
    /\ UNCHANGED <<dequePanic, strays, NotLinks>>

\* as StartedTask does: the expiration is assigned, then the task is linked
DequePushByExpiration(d, task, expiration) ==
    /\ dequePanic = ""
    /\ Detached(task)
    /\ SetLinked(Linked_PushByExpiration(
           [heap EXCEPT ![task].expiration = expiration], deques, d, task))
    /\ UNCHANGED <<dequePanic, strays, NotLinks>>

\* Remove(task) for any Task of the program, in a deque or not
DequeRemove(d, task) ==
    /\ dequePanic = ""
    /\ LET w == Linked_Remove(heap, deques, d, task)
           stray == task \notin Linked_Members(heap, deques[d]) /\ w.panic = ""
       IN /\ stray => strays < MaxStrays
          /\ SetLinked(w)
          /\ dequePanic' = w.panic
          /\ strays' = IF stray THEN strays + 1 ELSE strays
    /\ UNCHANGED NotLinks

\* Remove(task) as the queues call it: with a task of the deque
DequeRemoveMember(d, task) ==
    /\ task \in Linked_Members(heap, deques[d])
    /\ DequeRemove(d, task)

DequePopFirst(d) ==
    /\ deques[d].first # NilTask
    /\ DequeRemove(d, deques[d].first)

DequePopLast(d) ==
    /\ deques[d].last # NilTask
    /\ DequeRemove(d, deques[d].last)

\* a restart: the deque is encoded and then decoded; the new Task objects
\* take the addresses of the old ones, which nothing refers to any more
DequeDecode(d) ==
    /\ dequePanic = ""
    /\ LET obj == Linked_Encode(heap, deques[d])
           w == Linked_DecodeTaskDeque(heap, obj, Linked_Iterate(heap, deques[d]))
       IN /\ heap' = w.heap
          /\ deques' = [deques EXCEPT ![d] = w.deque]
    /\ UNCHANGED <<dequePanic, strays, NotLinks>>

Expirations == ZeroTime..MaxExpiration

\* the deque of a program that has one
OwnDeque == {"d1"}

\* a program that calls the methods of its deque, Remove with tasks that are in it
NextDequeMembers ==
    \/ \E d \in OwnDeque, task \in Tasks : DequePushLast(d, task)
    \/ \E d \in OwnDeque, task \in Tasks : DequePushFirst(d, task)
    \/ \E d \in OwnDeque, task \in Tasks, expiration \in Expirations :
           DequePushByExpiration(d, task, expiration)
    \/ \E d \in OwnDeque : DequePopFirst(d)
    \/ \E d \in OwnDeque : DequePopLast(d)
    \/ \E d \in OwnDeque, task \in Tasks : DequeRemoveMember(d, task)
    \/ \E d \in OwnDeque : DequeDecode(d)

SpecDequeMembers == Init /\ [][NextDequeMembers]_vars

\* a program that calls Remove with any task
NextDeque ==
    \/ \E d \in Deques, task \in Tasks : DequePushLast(d, task)
    \/ \E d \in Deques, task \in Tasks : DequePushFirst(d, task)
    \/ \E d \in Deques, task \in Tasks, expiration \in Expirations :
           DequePushByExpiration(d, task, expiration)
    \/ \E d \in Deques, task \in Tasks : DequeRemove(d, task)

SpecDeque == Init /\ [][NextDeque]_vars


\* C33: Remove(t) on a deque that t is not in panics, whatever t is: a task
\* in no deque, or the head, the tail or an inner task of another deque; it
\* changes no count, no bytes and no link. When t is in the deque, t's
\* queuePrev and queueNext are nil after the call.
RemoveFailsLoudly ==
    [][\A d \in Deques, task \in Tasks :
          DequeRemove(d, task) =>
              IF task \in Linked_Members(heap, deques[d])
              THEN /\ dequePanic' = ""
                   /\ heap'[task].queuePrev = NilTask
                   /\ heap'[task].queueNext = NilTask
              ELSE /\ dequePanic' # ""
                   /\ heap' = heap
                   /\ deques' = deques]_vars

\* the sum of len(Contents) over the tasks of seq
RECURSIVE SumBytes(_, _, _)
SumBytes(h, seq, i) ==
    IF i > Len(seq) THEN 0 ELSE Len(h[seq[i]].Contents) + SumBytes(h, seq, i + 1)

\* C34: after any sequence of PushFirst, PushLast, PushByExpiration, PopFirst,
\* PopLast and Remove of tasks of the deque, and after DecodeTaskDeque, count
\* is the number of tasks reached from first by queueNext, bytes is the sum
\* of the lengths of their contents, the queuePrev links mirror the
\* queueNext links up to last, and first and last are nil exactly when count is 0.
DequeCountsAndLinks ==
    \A d \in OwnDeque :
        LET dq == deques[d]
            seq == Linked_Iterate(heap, dq)
        IN /\ dq.count = Len(seq)
           /\ dq.bytes = SumBytes(heap, seq, 1)
           /\ seq # <<>> =>
                  /\ heap[seq[1]].queuePrev = NilTask
                  /\ heap[seq[Len(seq)]].queueNext = NilTask
                  /\ dq.last = seq[Len(seq)]
                  /\ \A i \in 2..Len(seq) : heap[seq[i]].queuePrev = seq[i - 1]
           /\ (dq.first = NilTask) = (dq.count = 0)
           /\ (dq.last = NilTask) = (dq.count = 0)

\* PushByExpiration has put a task between two others
WitnessDequeCountsAndLinks ==
    \E d \in OwnDeque :
        LET seq == Linked_Iterate(heap, deques[d]) IN
        /\ Len(seq) = 3
        /\ heap[seq[1]].expiration < heap[seq[3]].expiration
        /\ heap[seq[2]].expiration = heap[seq[1]].expiration
        /\ deques[d].bytes > 0


----------------------------------------------------------------------------
(* QueueStateMux.Iterate beside Get and Serialize. saveLock is a           *)
(* sync.RWMutex: Lock() waits until no reader holds the lock, and from the *)
(* call of Lock() on every new RLock() waits for the writer.               *)

\* sort.Strings over the names of the contexts
NameOrder == <<"a", "b">>

SortStrings(S) == SelectSeq(NameOrder, LAMBDA n : n \in S)

NotWalk == <<now, thr, History, rt, rtLog, Counted, Transfer, Files, Links, Race, Restored>>

\* q.saveLock.RLock() of Iterate
IterateRLock ==
    /\ iter.pc = "idle"
    /\ ~saveLock
    /\ ~saveWait
    /\ iter' = [pc |-> "names", names |-> <<>>]
    /\ visited' = <<>>
    /\ UNCHANGED <<queues, users, Saver, saveWait, NotWalk>>

\* the names of q.queues, taken under q.lock, and sort.Strings
IterateNames ==
    /\ iter.pc = "names"
    /\ iter' = [pc |-> "get", names |-> SortStrings(DOMAIN queues)]
    /\ UNCHANGED <<queues, users, Saver, saveWait, visited, NotWalk>>

\* q.Get(name, ...) inside the loop, up to the call of f: RLock() on the
\* saveLock that Iterate holds already, the lookup that creates a missing
\* QueueState, and f(name, qs)
IterateGetEnter ==
    /\ iter.pc = "get"
    /\ iter.names # <<>>
    /\ ~saveWait
    /\ LET name == Head(iter.names)
           qs == QueueOf(name)
       IN /\ queues' = IF name \in DOMAIN queues THEN queues
                       ELSE [n \in DOMAIN queues \cup {name} |->
                                IF n = name THEN NewQueueState(DefaultTimeout) ELSE queues[n]]
          /\ users' = [n \in DOMAIN users \cup {name} |->
                          IF n = name
                          THEN (IF name \in DOMAIN users THEN users[name] ELSE 0) + 1
                          ELSE users[n]]
          /\ visited' = Append(visited,
                 [name |-> name,
                  created |-> name \notin DOMAIN queues,
                  cleared |-> QueueState_Cleared(qs)])
    /\ iter' = [iter EXCEPT !.pc = "in"]
    /\ UNCHANGED <<Saver, saveWait, NotWalk>>

\* the deferred function of that Get, and its RUnlock()
IterateGetExit ==
    /\ iter.pc = "in"
    /\ LET name == Head(iter.names)
           left == users[name] - 1
       IN IF left = 0 /\ QueueState_Cleared(queues[name])
          THEN /\ users' = [n \in DOMAIN users \ {name} |-> users[n]]
               /\ queues' = [n \in DOMAIN queues \ {name} |-> queues[n]]
          ELSE /\ users' = [users EXCEPT ![name] = left]
               /\ UNCHANGED queues
    /\ iter' = [pc |-> "get", names |-> Tail(iter.names)]
    /\ UNCHANGED <<Saver, saveWait, visited, NotWalk>>

\* the deferred q.saveLock.RUnlock() of Iterate
IterateRUnlock ==
    /\ iter.pc = "get"
    /\ iter.names = <<>>
    /\ iter' = [pc |-> "idle", names |-> <<>>]
    /\ UNCHANGED <<queues, users, Saver, saveWait, visited, NotWalk>>

Iterate == IterateRLock \/ IterateNames \/ IterateGetEnter \/ IterateGetExit \/ IterateRUnlock

\* Serialize calls q.saveLock.Lock()
SerializeWait ==
    /\ ~saveLock
    /\ ~saveWait
    /\ saveWait' = TRUE
    /\ UNCHANGED <<queues, users, Saver, iter, visited, NotWalk>>

\* Lock() returns: no Get and no Iterate holds the read lock
SerializeLocked ==
    /\ saveWait
    /\ \A t \in Threads : thr[t].pc = "idle"
    /\ iter.pc = "idle"
    /\ saveWait' = FALSE
    /\ saveLock' = TRUE
    /\ saveStates' = <<>>
    /\ UNCHANGED <<queues, users, iter, visited, NotWalk>>

Serialize ==
    \/ SerializeWait
    \/ SerializeLocked
    \/ \E name \in Contexts : SerializeEncode(name)
    \/ SerializeUnlock

\* request handlers that push, a handler that iterates, and the save loop
NextLocks ==
    \/ \E t \in Threads, name \in Contexts : GetEnter(t, name)
    \/ \E t \in Threads : GetExit(t)
    \/ \E name \in Contexts, contents \in Contents : Push(name, contents)
    \/ Iterate
    \/ Serialize

SpecLocks == Init /\ [][NextLocks]_vars

\* every goroutine that can take a step takes one in the end: a handler
\* returns from f, and saveLock starves neither its readers nor its writer
SpecLocksFair ==
    /\ SpecLocks
    /\ WF_vars(\E t \in Threads : GetExit(t))
    /\ SF_vars(Iterate)
    /\ SF_vars(Serialize)


\* C35: when Iterate and Serialize run at the same time, both complete in
\* the end: no Get inside Iterate waits forever behind a Serialize that
\* waits for saveLock.
IterateAndSerializeComplete ==
    /\ (iter.pc # "idle") ~> (iter.pc = "idle")
    /\ (saveWait \/ saveLock) ~> ~(saveWait \/ saveLock)


\* request handlers that push, pop and clear, and a handler that iterates
NextIterate ==
    \/ \E t \in Threads, name \in Contexts : GetEnter(t, name)
    \/ \E t \in Threads : GetExit(t)
    \/ \E name \in Contexts, contents \in Contents : Push(name, contents)
    \/ \E name \in Contexts, timeout \in TimeoutParams : Pop(name, timeout)
    \/ \E name \in Contexts : Clear(name)
    \/ Iterate

SpecIterate == Init /\ [][NextIterate]_vars

\* the place of a name in the order of sort.Strings
NameRank(name) == CHOOSE i \in 1..Len(NameOrder) : NameOrder[i] = name

\* the calls of f come in the order of the names
VisitedInOrder ==
    \A i \in 1..Len(visited), j \in 1..Len(visited) :
        i < j => NameRank(visited[i].name) < NameRank(visited[j].name)

\* no context is left in the multiplexer that is cleared and has no user
NoContextLeftBehind ==
    \A name \in DOMAIN queues : users[name] > 0 \/ ~QueueState_Cleared(queues[name])

\* C37: Iterate calls f with the non-empty QueueStates only, in the order of
\* the context names, also while other Get calls push, pop and clear between
\* its reading of the names and its visit of a context; Iterate creates no
\* context and leaves none behind.
IterateVisitsNonEmpty ==
    /\ VisitedInOrder
    /\ NoContextLeftBehind
    /\ \A i \in 1..Len(visited) : ~visited[i].cleared /\ ~visited[i].created


\* the Get calls on name whose callback has not returned: those of the
\* request handlers and the one of Iterate
GetsInFlight(name) ==
    Cardinality({t \in Threads : thr[t] = [pc |-> "in", name |-> name]})
        + (IF iter.pc = "in" /\ Head(iter.names) = name THEN 1 ELSE 0)

\* C38: in every state of the multiplexer users[name] is the number of Get
\* calls on name whose callback has not returned, queues and users have the
\* same keys, and a QueueState is in the map as long as a callback runs on
\* it, so that all Get calls on a name at one time work on one QueueState.
\* A context leaves the map only when its last user leaves and it is
\* cleared: no pushed task is lost to the garbage collection.
UsersCountGetsInFlight ==
    [][/\ DOMAIN queues' = DOMAIN users'
       /\ \A name \in DOMAIN users' : users'[name] = GetsInFlight(name)' /\ users'[name] >= 0
       /\ \A name \in Contexts : GetsInFlight(name)' > 0 => name \in DOMAIN queues'
       /\ \A name \in DOMAIN queues \ DOMAIN queues' :
              /\ users[name] = 1
              /\ GetsInFlight(name)' = 0
              /\ QueueState_Cleared(queues[name])]_vars

\* two request handlers and Iterate are inside Get on one context that holds a task
WitnessUsersCountGetsInFlight ==
    \E name \in Contexts :
        /\ name \in DOMAIN users
        /\ users[name] = Cardinality(Threads) + 1
        /\ ~QueueState_Cleared(queues[name])


----------------------------------------------------------------------------
(* Counts calls at the same time. Counts holds the read side of the        *)
(* QueueState's lock (part_003:313), which any number of goroutines hold   *)
(* together, and calls rateTracker.Count, whose truncateAndShift writes    *)
(* firstBinTime and the bins. The statements of the calls interleave; a    *)
(* Completed, which adds to the tracker, needs the write side and runs     *)
(* only while no Counts is in flight.                                      *)

NotRace == <<queues, users, thr, History, rtLog, Saver, Counted, Transfer, Files, Links, Walk,
             Restored>>

NoCounts == \A g \in Threads : counting[g].pc = "idle"

\* Completed while no Counts call holds the lock: rateTracker.Add(1)
RaceAdd ==
    /\ NoCounts
    /\ SumBins(rt.bins, 1, Len(rt.bins)) < MaxRateCalls
    /\ rt' = RateTracker_AddAt(rt, now, 1)
    /\ UNCHANGED <<now, Race, NotRace>>

\* Count(t) up to the tests of truncateAndShift: lastBinTime and the branch
CountBegin(g, t) ==
    /\ counting[g].pc = "idle"
    /\ LET size == Len(rt.bins)
           lastBinTime == rt.firstBinTime + size - 1
           branch == IF now < rt.firstBinTime \/ now >= lastBinTime + size THEN "reset"
                     ELSE IF now < lastBinTime THEN "back"
                     ELSE IF now > lastBinTime THEN "forward"
                     ELSE "none"
           shift == IF branch = "back" THEN lastBinTime - now
                    ELSE IF branch = "forward" THEN now - lastBinTime
                    ELSE 0
       IN counting' = [counting EXCEPT ![g] =
              [pc |-> IF branch = "none" THEN "sum" ELSE "first", curTime |-> now, t |-> t,
               branch |-> branch, shift |-> shift, res |-> 0]]
    /\ rt0' = IF NoCounts THEN rt ELSE rt0
    /\ UNCHANGED <<rt, now, NotRace>>

\* the assignment to r.firstBinTime of the branch taken
CountFirstBinTime(g) ==
    /\ counting[g].pc = "first"
    /\ LET c == counting[g] IN
       rt' = [rt EXCEPT !.firstBinTime =
                 IF c.branch = "reset" THEN c.curTime - (Len(rt.bins) - 1)
                 ELSE IF c.branch = "back" THEN @ - c.shift
                 ELSE @ + c.shift]
    /\ counting' = [counting EXCEPT ![g].pc = "bins"]
    /\ UNCHANGED <<rt0, now, NotRace>>

\* the copy and the zeroing loop of the branch taken
CountBins(g) ==
    /\ counting[g].pc = "bins"
    /\ LET c == counting[g]
           size == Len(rt.bins)
       IN rt' = [rt EXCEPT !.bins =
                    IF c.branch = "reset" THEN [i \in 1..size |-> 0]
                    ELSE IF c.branch = "back"
                    THEN [i \in 1..size |-> IF i <= c.shift THEN 0 ELSE rt.bins[i - c.shift]]
                    ELSE [i \in 1..size |->
                             IF i > size - c.shift THEN 0 ELSE rt.bins[i + c.shift]]]
    /\ counting' = [counting EXCEPT ![g].pc = "sum"]
    /\ UNCHANGED <<rt0, now, NotRace>>

\* the loop of CountAt over the last t bins, and the return
CountSum(g) ==
    /\ counting[g].pc = "sum"
    /\ counting' = [counting EXCEPT
           ![g].pc = "done",
           ![g].res = SumBins(rt.bins, Len(rt.bins) - counting[g].t + 1, Len(rt.bins))]
    /\ UNCHANGED <<rt, rt0, now, NotRace>>

\* the Counts calls have all returned
CountsReturned ==
    /\ \E g \in Threads : counting[g].pc = "done"
    /\ \A g \in Threads : counting[g].pc \in {"idle", "done"}

\* the handlers answer; the goroutines are free for new calls
CountsEnd ==
    /\ CountsReturned
    /\ counting' = [g \in Threads |-> NotCounting]
    /\ UNCHANGED <<rt, rt0, now, NotRace>>

NextRace ==
    \/ RaceAdd
    \/ Tick
    \/ \E g \in Threads, t \in 1..RateHistory : CountBegin(g, t)
    \/ \E g \in Threads : CountFirstBinTime(g)
    \/ \E g \in Threads : CountBins(g)
    \/ \E g \in Threads : CountSum(g)
    \/ CountsEnd

SpecRace == Init /\ [][NextRace]_vars

\* the calls of the goroutines in order, one after the other from tracker r:
\* the tracker they leave, and whether each returns what its goroutine got
RECURSIVE InSequence(_, _)
InSequence(r, order) ==
    IF order = <<>> THEN [rateTracker |-> r, same |-> TRUE]
    ELSE LET c == counting[Head(order)]
             one == RateTracker_CountAt(r, c.curTime, c.t)
             rest == InSequence(one.rateTracker, Tail(order))
         IN [rateTracker |-> rest.rateTracker, same |-> rest.same /\ one.count = c.res]

\* the orders in which the calls that returned can be put
Orders ==
    LET done == {g \in Threads : counting[g].pc = "done"} IN
    {order \in UNION {[1..k -> done] : k \in 0..Cardinality(done)} :
        /\ Len(order) = Cardinality(done)
        /\ \A i \in 1..Len(order), j \in 1..Len(order) : i # j => order[i] # order[j]}

\* C36: Counts calls with a rate window on one context, which hold only the
\* read side of the lock, leave the rate tracker and return the counts as
\* the same calls would in some order one after the other, however they
\* interleave.
CountsSerializable ==
    CountsReturned =>
        \E order \in Orders :
            LET s == InSequence(rt0, order) IN s.same /\ s.rateTracker = rt


----------------------------------------------------------------------------
(* The window of the rate tracker after AddAt and CountAt.                 *)

\* the seconds the bins of r cover
WindowOf(r) == r.firstBinTime..(r.firstBinTime + Len(r.bins) - 1)

\* tracker s is tracker r moved to end at curTime, with n more events there
ShiftedTo(r, s, curTime, n) ==
    /\ Len(s.bins) = Len(r.bins)
    /\ s.firstBinTime + Len(s.bins) - 1 = curTime
    /\ \A sec \in WindowOf(s) :
           EventsAt(s, sec) = (IF sec \in WindowOf(r) THEN EventsAt(r, sec) ELSE 0)
                              + (IF sec = curTime THEN n ELSE 0)

\* C39: AddAt(curTime, n) and CountAt(curTime, t) at any curTime, the one of
\* the last bin, a later one, an earlier one or one outside the window on
\* either side, keep the number of bins and leave the last bin at curTime,
\* the bins of the seconds that were not in the window before at zero, and
\* in every other bin the count of the second it had before.
WindowAlignment ==
    \A curTime \in RateTimes :
        /\ \A n \in 1..2 : ShiftedTo(rt, RateTracker_AddAt(rt, curTime, n), curTime, n)
        /\ \A t \in 1..RateTracker_HistorySize(rt) :
               ShiftedTo(rt, RateTracker_CountAt(rt, curTime, t).rateTracker, curTime, 0)

\* the tracker after a call at a later second and then one at an earlier
\* second, the events of the first call still inside the window
WitnessWindowAlignment ==
    /\ Len(rtLog) = 3
    /\ rtLog[1][2] > 0
    /\ rtLog[1][1] < rtLog[2][1]
    /\ rtLog[3][1] < rtLog[2][1]
    /\ rtLog[3][1] > rtLog[1][1]
    /\ rt.firstBinTime + Len(rt.bins) - 1 = rtLog[3][1]
    /\ EventsAt(rt, rtLog[1][1]) = rtLog[1][2]


----------------------------------------------------------------------------
(* A rate tracker that comes out of a snapshot: DecodeQueueState hands     *)
(* DecodeRateTracker the address of the entry's RateTracker field.         *)

\* the EncodedRateTracker of an entry that carries no rate-tracker data: the
\* zero value of the struct
EmptyEncodedRateTracker == [FirstBinTime |-> 0, Bins |-> <<>>]

NotRestored == <<queues, users, now, thr, History, Saver, Counted, Transfer, Files, Links, Walk,
                 Race>>

\* DecodeQueueState on an entry whose RateTracker field is what Encode wrote
RestoreSnapshot ==
    /\ Len(rtLog) < MaxRateCalls
    /\ rt' = DecodeRateTracker(RateTracker_Encode(rt))
    /\ rtFrom' = "snapshot"
    /\ rtPanic' = ""
    /\ UNCHANGED <<rtLog, NotRestored>>

\* DecodeQueueState on an entry without rate-tracker data
RestoreEmpty ==
    /\ Len(rtLog) < MaxRateCalls
    /\ rt' = DecodeRateTracker(EmptyEncodedRateTracker)
    /\ rtFrom' = "empty"
    /\ rtPanic' = ""
    /\ rtLog' = <<>>
    /\ UNCHANGED NotRestored

\* AddAt: truncateAndShift, then r.bins[len(r.bins)-1] += n, which is out of
\* range when there is no bin
RestoredAdd(curTime, n) ==
    /\ Len(rtLog) < MaxRateCalls
    /\ IF Len(rt.bins) = 0
       THEN /\ rt' = truncateAndShift(rt, curTime)
            /\ rtPanic' = "index out of range"
       ELSE /\ rt' = RateTracker_AddAt(rt, curTime, n)
            /\ rtPanic' = ""
    /\ rtLog' = Logged(rt, curTime, n)
    /\ UNCHANGED <<rtFrom, NotRestored>>

\* CountAt: panics for t > len(r.bins) before anything else
RestoredCount(curTime, t) ==
    /\ Len(rtLog) < MaxRateCalls
    /\ IF t > Len(rt.bins)
       THEN /\ rtPanic' = "too many seconds requested"
            /\ UNCHANGED rt
       ELSE /\ rt' = RateTracker_CountAt(rt, curTime, t).rateTracker
            /\ rtPanic' = ""
    /\ rtLog' = Logged(rt, curTime, 0)
    /\ UNCHANGED <<rtFrom, NotRestored>>

NextRestore ==
    \/ RestoreSnapshot
    \/ RestoreEmpty
    \/ \E curTime \in RateTimes, n \in 1..2 : RestoredAdd(curTime, n)
    \/ \E curTime \in RateTimes, t \in 1..RateHistory : RestoredCount(curTime, t)

SpecRestore == Init /\ [][NextRestore]_vars

\* C40: the rate tracker decoded from an entry without rate-tracker data has
\* DefaultRateTrackerBins bins, and Add and Count on it return.
EmptyStateDecodesToDefault ==
    rtFrom = "empty" => Len(rt.bins) = DefaultRateTrackerBins /\ rtPanic = ""

====
